---- MODULE Spec2Model ----
(***************************************************************************)
(* Trading strategy and risk engine of polybot: risk manager, spike        *)
(* detector, arbitrage scanner, Kelly sizer and backtesting engine.        *)
(*                                                                         *)
(* JavaScript numbers are modelled as exact rationals extended with the    *)
(* IEEE-754 special values the code can produce by dividing by zero        *)
(* (Infinity, -Infinity, NaN).  Rounding error of binary floating point is *)
(* not modelled.                                                           *)
(***************************************************************************)
EXTENDS Integers, Sequences, FiniteSets, TLC

VARIABLES
    \* ---- RiskManager (src/server/trading/risk-manager.ts)
    limits,          \* RiskLimits record
    dailyPnL,        \* accumulated profit/loss since the last reset
    peakEquity,      \* high-water mark
    currentEquity,
    tradingHalted,
    riskCall,        \* the last RiskManager call: [op, args, ret]
    tripped,         \* history: a recordTrade since the last reset met the loss limit
    pnlSinceReset,   \* history: the sum of profitLoss recorded since the last reset
    riskCallers,     \* concurrent callers: per caller its call, position, local and result
    riskStart,       \* history: the manager's state when the first caller called
    \* ---- wall clock, Date.now() in milliseconds
    now,
    \* ---- SpikeDetector (src/server/trading/spike-detector.ts)
    priceHistory,    \* Map marketId -> PricePoint[]
    cooldowns,       \* Map marketId -> end of the cooldown
    detectedSpikes,  \* SpikeEvent[]
    spikeCall,       \* the last SpikeDetector call: [op, marketId, ret]
    recorded,        \* history: per market, every point recordPrice was given
    fired,           \* history: every event detectSpike created, with its cooldownMs
    spikeCallers,    \* concurrent callers: their calls and locals, and the arrays they hold
    \* ---- KellyCriterion (src/server/trading/kelly-criterion.ts)
    kellyCall,       \* the last KellyCriterion call: [op, input, ret]
    tradeHistory,    \* the rolling history of { profitLoss, capital }
    histCall,        \* the last call on the trade history: [op, ret]
    added,           \* history: every trade addTrade was given, in order
    \* ---- ArbitrageScanner (src/server/trading/arbitrage-scanner.ts)
    opportunities,   \* ArbitrageOpportunity[], the registry
    arbCall,         \* the last ArbitrageScanner call: [op, at, markets, ret]
    prevOpportunities, \* history: the registry before the last call
    scans,           \* history: the number of scans so far
    \* ---- BacktestingEngine (src/server/trading/kelly-criterion.ts)
    results,         \* BacktestResult[]
    bt,              \* the runBacktest invocation: its position and locals
    btTrace,         \* history: equity, peak and drawdowns after each day step
    btCall,          \* the last BacktestingEngine call: [op, ret]
    finished         \* history: the result of every completed run, in order

riskVars ==
    <<limits, dailyPnL, peakEquity, currentEquity, tradingHalted, riskCall, tripped,
      pnlSinceReset, riskCallers, riskStart>>
spikeVars ==
    <<priceHistory, cooldowns, detectedSpikes, spikeCall, recorded, fired, spikeCallers>>

kellyVars == <<kellyCall>>

histVars == <<tradeHistory, histCall, added>>

arbVars == <<opportunities, arbCall, prevOpportunities, scans>>

btVars == <<results, bt, btTrace, btCall, finished>>

vars == <<riskVars, now, spikeVars, kellyVars, histVars, arbVars, btVars>>

----------------------------------------------------------------------------
(* JavaScript number arithmetic                                            *)

RECURSIVE GCD(_, _)
GCD(a, b) == IF b = 0 THEN a ELSE GCD(b, a % b)

AbsInt(x) == IF x < 0 THEN -x ELSE x

\* a finite number n/d in lowest terms with a positive denominator
Fin(n, d) ==
    LET g == GCD(AbsInt(n), AbsInt(d))
        s == IF d < 0 THEN -1 ELSE 1
    IN [k |-> "fin", n |-> (s * n) \div g, d |-> (s * d) \div g]

Num(n) == [k |-> "fin", n |-> n, d |-> 1]
NaN == [k |-> "nan", n |-> 0, d |-> 0]
Infinity(s) == [k |-> "inf", n |-> s, d |-> 0]
\* an optional field that is absent (undefined)
Undefined == [k |-> "undefined", n |-> 0, d |-> 0]

\* no value: null, or the result of a method that returns nothing
Null == [k |-> "null"]

Sign(a) == IF a.n > 0 THEN 1 ELSE IF a.n < 0 THEN -1 ELSE 0

NumNeg(a) == IF a.k = "nan" THEN NaN ELSE [a EXCEPT !.n = -a.n]

NumAdd(a, b) ==
    IF a.k = "nan" \/ b.k = "nan" THEN NaN
    ELSE IF a.k = "inf" THEN (IF b.k = "inf" /\ a.n # b.n THEN NaN ELSE a)
    ELSE IF b.k = "inf" THEN b
    ELSE LET g == GCD(a.d, b.d)
         IN Fin(a.n * (b.d \div g) + b.n * (a.d \div g), (a.d \div g) * b.d)

NumSub(a, b) == NumAdd(a, NumNeg(b))

NumMul(a, b) ==
    IF a.k = "nan" \/ b.k = "nan" THEN NaN
    ELSE IF a.k = "inf" \/ b.k = "inf"
         THEN (IF Sign(a) * Sign(b) = 0 THEN NaN ELSE Infinity(Sign(a) * Sign(b)))
    ELSE LET g1 == GCD(AbsInt(a.n), b.d)
             g2 == GCD(AbsInt(b.n), a.d)
         IN Fin((a.n \div g1) * (b.n \div g2), (a.d \div g2) * (b.d \div g1))

\* division; a zero divisor is +0
NumDiv(a, b) ==
    IF a.k = "nan" \/ b.k = "nan" THEN NaN
    ELSE IF a.k = "inf"
         THEN (IF b.k = "inf" THEN NaN
               ELSE Infinity(IF Sign(b) < 0 THEN -Sign(a) ELSE Sign(a)))
    ELSE IF b.k = "inf" THEN Num(0)
    ELSE IF b.n = 0 THEN (IF a.n = 0 THEN NaN ELSE Infinity(Sign(a)))
    ELSE LET g1 == GCD(AbsInt(a.n), AbsInt(b.n))
             g2 == GCD(a.d, b.d)
         IN Fin((a.n \div g1) * (b.d \div g2), (a.d \div g2) * (b.n \div g1))

\* comparisons: every comparison with NaN is false
NumLt(a, b) ==
    IF a.k = "nan" \/ b.k = "nan" THEN FALSE
    ELSE IF a.k = "inf" THEN a.n < 0 /\ ~(b.k = "inf" /\ b.n < 0)
    ELSE IF b.k = "inf" THEN b.n > 0
    ELSE LET g == GCD(a.d, b.d)
         IN a.n * (b.d \div g) < b.n * (a.d \div g)

NumLe(a, b) == a.k # "nan" /\ b.k # "nan" /\ (a = b \/ NumLt(a, b))
NumGt(a, b) == NumLt(b, a)
NumGe(a, b) == NumLe(b, a)

NumAbs(a) == IF a.k = "nan" THEN NaN ELSE [a EXCEPT !.n = AbsInt(a.n)]

\* Math.min / Math.max of two numbers
MathMin(a, b) ==
    IF a.k = "nan" \/ b.k = "nan" THEN NaN ELSE IF NumLt(b, a) THEN b ELSE a
MathMax(a, b) ==
    IF a.k = "nan" \/ b.k = "nan" THEN NaN ELSE IF NumGt(b, a) THEN b ELSE a

\* a value is truthy unless it is 0, NaN or undefined
Truthy(a) == ~(a.k = "nan" \/ a.k = "undefined" \/ (a.k = "fin" /\ a.n = 0))

----------------------------------------------------------------------------
(* RiskManager                                                             *)

MaxAbsPnL == 1500

\* inputs
Equities == {Num(-1000), Num(0), Num(1000), Num(10000)}
ProfitLosses == {Num(-1000), Num(-500), Num(500)}
\* Partial<RiskLimits>: a function from some of the fields to numbers
Partials ==
    { [f \in {"maxDailyLoss"} |-> Fin(1, 20)],
      [f \in {"maxTotalExposure"} |-> Fin(1, 10)],
      [f \in {"maxTotalExposure", "maxPositionSize"} |->
          IF f = "maxTotalExposure" THEN Fin(1, 4) ELSE Fin(1, 50)],
      [f \in {"maxDailyLoss"} |-> Fin(1, 10)] }

Position(entryPrice, quantity) == [entryPrice |-> entryPrice, quantity |-> Num(quantity)]
PositionLists ==
    { <<>>,
      <<Position(Fin(1, 2), 4000)>>,
      <<Position(Fin(1, 2), 4000), Position(Fin(1, 4), 2000)>>,
      <<Position(Fin(1, 2), 5000), Position(Fin(1, 4), 2000)>> }
PositionSizes == {Num(0), Num(300), Num(1000), Num(3000)}
Bankrolls == {Num(0), Num(10000)}

\* the fields a caller of getLimits writes in the record it was given
CallerWrites == {"maxDailyLoss", "maxTotalExposure"}

NoArgs == [positionSize |-> Undefined, bankroll |-> Undefined, positions |-> <<>>]

DefaultLimits ==
    [maxTotalExposure |-> Fin(1, 4),
     maxPositionSize |-> Fin(1, 20),
     maxDailyLoss |-> Fin(1, 10),
     maxCorrelation |-> Fin(7, 10),
     stopLossDefault |-> Fin(3, 20),
     takeProfitDefault |-> Fin(1, 5)]

NumCallers == 3
Callers == 1..NumCallers

\* a caller that has not called yet
IdleCaller == [op |-> "none", arg |-> Num(0), pc |-> "idle", tmp |-> Num(0), ret |-> Null]

\* the fields of the manager the concurrent calls read and write
RiskState ==
    [dailyPnL |-> dailyPnL, tradingHalted |-> tradingHalted,
     currentEquity |-> currentEquity, peakEquity |-> peakEquity, limits |-> limits]

RiskInit ==
    /\ riskCallers = [c \in Callers |-> IdleCaller]
    /\ riskStart = Null
    /\ limits = DefaultLimits
    /\ dailyPnL = Num(0)
    /\ peakEquity = Num(0)
    /\ currentEquity = Num(0)
    /\ tradingHalted = FALSE
    /\ riskCall = [op |-> "new", args |-> NoArgs, ret |-> Undefined]
    /\ tripped = FALSE
    /\ pnlSinceReset = Num(0)

\* { ...this.limits, ...limits }
MergeLimits(old, partial) ==
    [f \in DOMAIN old |-> IF f \in DOMAIN partial THEN partial[f] ELSE old[f]]

setLimits(partial) ==
    /\ limits' = MergeLimits(limits, partial)
    /\ riskCall' = [op |-> "setLimits", args |-> partial, ret |-> Undefined]
    /\ UNCHANGED <<dailyPnL, peakEquity, currentEquity, tradingHalted, tripped, pnlSinceReset>>

getLimits ==
    /\ riskCall' = [op |-> "getLimits", args |-> NoArgs, ret |-> limits]
    /\ UNCHANGED <<limits, dailyPnL, peakEquity, currentEquity, tradingHalted, tripped,
                   pnlSinceReset>>

\* a getLimits that hands out the record the manager holds
LimitsAfterCallerWriteShared(held, field, value) == [held EXCEPT ![field] = value]

\* return { ...this.limits }: the caller's record is a copy, a write to it
\* leaves the record the manager holds as it was
LimitsAfterCallerWrite(held, field, value) == held

\* the caller of getLimits assigns to a field of the record it was given
writeReturnedLimits(field, value) ==
    /\ riskCall.op \in {"getLimits", "writeReturnedLimits"}
    /\ riskCall.ret[field] # value
    /\ riskCall' = [op |-> "writeReturnedLimits", args |-> NoArgs,
                    ret |-> [riskCall.ret EXCEPT ![field] = value]]
    /\ limits' = LimitsAfterCallerWrite(limits, field, value)
    /\ UNCHANGED <<dailyPnL, peakEquity, currentEquity, tradingHalted, tripped,
                   pnlSinceReset>>

\* a high-water mark that follows the equity down
RaisedPeakFollowing(equity) == equity

\* if (equity > this.peakEquity) this.peakEquity = equity
RaisedPeak(equity) == IF NumGt(equity, peakEquity) THEN equity ELSE peakEquity

updateEquity(equity) ==
    /\ currentEquity' = equity
    /\ peakEquity' = RaisedPeak(equity)
    /\ riskCall' = [op |-> "updateEquity", args |-> NoArgs, ret |-> Undefined]
    /\ UNCHANGED <<limits, dailyPnL, tradingHalted, tripped, pnlSinceReset>>

\* |pnl| / currentEquity >= maxDailyLoss, for a positive equity
DailyLossReached(pnl) ==
    /\ currentEquity.k = "fin" /\ currentEquity.n > 0
    /\ NumLe(NumMul(limits.maxDailyLoss, currentEquity), NumAbs(pnl))

\* a daily-loss test that lets the boundary value pass
LossLimitExceeded(pnl) ==
    /\ NumGt(currentEquity, Num(0))
    /\ NumGt(NumDiv(NumAbs(pnl), currentEquity), limits.maxDailyLoss)

\* the daily-loss test of recordTrade, on the accumulated P&L pnl
LossLimitMet(pnl) ==
    /\ NumGt(currentEquity, Num(0))
    /\ NumGe(NumDiv(NumAbs(pnl), currentEquity), limits.maxDailyLoss)

\* a recordTrade that re-evaluates the flag instead of latching it
HaltedAfterTradeUnlatched(pnl) == LossLimitMet(pnl)

\* the halt flag after recordTrade has accumulated pnl
HaltedAfterTrade(pnl) == IF LossLimitMet(pnl) THEN TRUE ELSE tradingHalted

\* an accumulator that keeps only the last trade
AccumulatedPnLLast(profitLoss) == profitLoss

\* this.dailyPnL += trade.profitLoss
AccumulatedPnL(profitLoss) == NumAdd(dailyPnL, profitLoss)

recordTrade(trade) ==
    LET pnl == AccumulatedPnL(trade.profitLoss) IN
    /\ NumLe(NumAbs(pnl), Num(MaxAbsPnL))
    /\ dailyPnL' = pnl
    /\ tradingHalted' = HaltedAfterTrade(pnl)
    /\ tripped' = (tripped \/ DailyLossReached(pnl))
    /\ pnlSinceReset' = NumAdd(pnlSinceReset, trade.profitLoss)
    /\ riskCall' = [op |-> "recordTrade", args |-> NoArgs, ret |-> Undefined]
    /\ UNCHANGED <<limits, peakEquity, currentEquity>>

resetDailyPnL ==
    /\ dailyPnL' = Num(0)
    /\ tradingHalted' = FALSE
    /\ tripped' = FALSE
    /\ pnlSinceReset' = Num(0)
    /\ riskCall' = [op |-> "resetDailyPnL", args |-> NoArgs, ret |-> Undefined]
    /\ UNCHANGED <<limits, peakEquity, currentEquity>>

IsTradingAllowed == ~tradingHalted

isTradingAllowed ==
    /\ riskCall' = [op |-> "isTradingAllowed", args |-> NoArgs, ret |-> IsTradingAllowed]
    /\ UNCHANGED <<limits, dailyPnL, peakEquity, currentEquity, tradingHalted, tripped,
                   pnlSinceReset>>

\* positions.reduce((sum, p) => sum + p.entryPrice * p.quantity, 0)
RECURSIVE Exposure(_)
Exposure(positions) ==
    IF positions = <<>> THEN Num(0)
    ELSE LET n == Len(positions) IN
         NumAdd(Exposure(SubSeq(positions, 1, n - 1)),
                NumMul(positions[n].entryPrice, positions[n].quantity))

\* Math.max(...positions.map(p => p.entryPrice * p.quantity)), 0 when empty
RECURSIVE LargestPosition(_)
LargestPosition(positions) ==
    IF positions = <<>> THEN Num(0)
    ELSE LET n == Len(positions)
             v == NumMul(positions[n].entryPrice, positions[n].quantity)
         IN IF n = 1 THEN v ELSE MathMax(LargestPosition(SubSeq(positions, 1, n - 1)), v)

\* this.peakEquity > 0 ? (this.peakEquity - this.currentEquity) / this.peakEquity : 0
DrawdownOf(peak, equity) ==
    IF NumGt(peak, Num(0)) THEN NumDiv(NumSub(peak, equity), peak) ELSE Num(0)

CurrentDrawdown == DrawdownOf(peakEquity, currentEquity)

\* maxDrawdown: currentDrawdown * 100
ReportedDrawdown(drawdown) == NumMul(drawdown, Num(100))

\* The exposure, drawdown and score fields of the RiskMetrics that
\* calculateMetrics returns; portfolioHeat, correlationRisk and valueAtRisk
\* (a square root) are outputs that feed no state and are left out.
CalculateMetrics(positions, bankroll) ==
    LET totalExposure == Exposure(positions)
        exposurePercent ==
            IF NumGt(bankroll, Num(0)) THEN NumDiv(totalExposure, bankroll) ELSE Num(0)
        currentDrawdown == CurrentDrawdown
        riskScore ==
            IF NumGt(exposurePercent, Fin(2, 5)) \/ NumGt(currentDrawdown, Fin(1, 5))
            THEN "critical"
            ELSE IF NumGt(exposurePercent, Fin(1, 4)) \/ NumGt(currentDrawdown, Fin(1, 10))
            THEN "high"
            ELSE IF NumGt(exposurePercent, Fin(3, 20)) \/ NumGt(currentDrawdown, Fin(1, 20))
            THEN "medium"
            ELSE "low"
    IN [totalExposure |-> totalExposure,
        exposurePercent |-> NumMul(exposurePercent, Num(100)),
        largestPosition |-> LargestPosition(positions),
        maxDrawdown |-> ReportedDrawdown(currentDrawdown),
        currentDrawdown |-> NumMul(currentDrawdown, Num(100)),
        riskScore |-> riskScore]

\* a query that latches the halt flag on the way
RiskStateAfterQueryHalting(st) == [st EXCEPT !.tradingHalted = TRUE]

\* the manager's fields after calculateMetrics or validatePosition: neither
\* method, nor a helper it calls, assigns to a field of this
RiskStateAfterQuery(st) == st

\* the caller's positions array after the call: reduce and map read it, and
\* Math.max is given a spread copy
PositionsAfterQuery(positions) == positions

SetRiskState(st) ==
    /\ dailyPnL' = st.dailyPnL
    /\ tradingHalted' = st.tradingHalted
    /\ currentEquity' = st.currentEquity
    /\ peakEquity' = st.peakEquity
    /\ limits' = st.limits

calculateMetrics(positions, bankroll) ==
    /\ riskCall' = [op |-> "calculateMetrics",
                    args |-> [positionSize |-> Undefined, bankroll |-> bankroll,
                              positions |-> positions,
                              after |-> PositionsAfterQuery(positions)],
                    ret |-> CalculateMetrics(positions, bankroll)]
    /\ SetRiskState(RiskStateAfterQuery(RiskState))
    /\ UNCHANGED <<tripped, pnlSinceReset>>

\* an exposure branch that forgets the exposure already held
ExposureAdjustmentNoExisting(bankroll, currentExposure) ==
    LET maxAllowed == NumMul(limits.maxTotalExposure, bankroll)
    IN IF NumLe(maxAllowed, Num(0))
       THEN [allowed |-> FALSE, reason |-> "Maximum exposure limit reached",
             adjustedSize |-> Undefined]
       ELSE [allowed |-> TRUE,
             reason |-> "Position size reduced to stay within exposure limits",
             adjustedSize |-> maxAllowed]

\* validatePosition once the total exposure would exceed the limit; an
\* absent reason is "", an absent adjustedSize is Undefined
ExposureAdjustment(bankroll, currentExposure) ==
    LET maxAllowed == NumSub(NumMul(limits.maxTotalExposure, bankroll), currentExposure)
    IN IF NumLe(maxAllowed, Num(0))
       THEN [allowed |-> FALSE, reason |-> "Maximum exposure limit reached",
             adjustedSize |-> Undefined]
       ELSE [allowed |-> TRUE,
             reason |-> "Position size reduced to stay within exposure limits",
             adjustedSize |-> maxAllowed]

\* a validatePosition that tests the single-position cap first and returns
\* at it
ValidateAllowedCapFirst(positionSize, bankroll, existingPositions) ==
    LET currentExposure == Exposure(existingPositions)
    IN IF NumGt(NumDiv(positionSize, bankroll), limits.maxPositionSize)
       THEN [allowed |-> TRUE,
             reason |-> "Position size reduced to maximum allowed",
             adjustedSize |-> NumMul(bankroll, limits.maxPositionSize)]
       ELSE IF NumGt(NumDiv(NumAdd(currentExposure, positionSize), bankroll),
                     limits.maxTotalExposure)
            THEN ExposureAdjustment(bankroll, currentExposure)
            ELSE [allowed |-> TRUE, reason |-> "", adjustedSize |-> Undefined]

\* validatePosition when trading is not halted
ValidateAllowed(positionSize, bankroll, existingPositions) ==
    LET currentExposure == Exposure(existingPositions)
        newExposure == NumAdd(currentExposure, positionSize)
        exposurePercent == NumDiv(newExposure, bankroll)
        positionPercent == NumDiv(positionSize, bankroll)
    IN IF NumGt(exposurePercent, limits.maxTotalExposure)
       THEN ExposureAdjustment(bankroll, currentExposure)
       ELSE IF NumGt(positionPercent, limits.maxPositionSize)
            THEN [allowed |-> TRUE,
                  reason |-> "Position size reduced to maximum allowed",
                  adjustedSize |-> NumMul(bankroll, limits.maxPositionSize)]
            ELSE [allowed |-> TRUE, reason |-> "", adjustedSize |-> Undefined]

\* a validatePosition that does not look at the halt flag
ValidatePositionIgnoringHalt(positionSize, bankroll, existingPositions) ==
    ValidateAllowed(positionSize, bankroll, existingPositions)

ValidatePosition(positionSize, bankroll, existingPositions) ==
    IF tradingHalted
    THEN [allowed |-> FALSE, reason |-> "Trading halted due to daily loss limit",
          adjustedSize |-> Undefined]
    ELSE ValidateAllowed(positionSize, bankroll, existingPositions)

validatePosition(positionSize, bankroll, existingPositions) ==
    /\ riskCall' = [op |-> "validatePosition",
                    args |-> [positionSize |-> positionSize, bankroll |-> bankroll,
                              positions |-> existingPositions,
                              after |-> PositionsAfterQuery(existingPositions)],
                    ret |-> ValidatePosition(positionSize, bankroll, existingPositions)]
    /\ SetRiskState(RiskStateAfterQuery(RiskState))
    /\ UNCHANGED <<tripped, pnlSinceReset>>

RiskNext ==
    \/ \E ps \in PositionLists, b \in Bankrolls : calculateMetrics(ps, b)
    \/ \E sz \in PositionSizes, b \in Bankrolls, ps \in PositionLists :
          validatePosition(sz, b, ps)
    \/ \E p \in Partials : setLimits(p)
    \/ getLimits
    \/ \E f \in CallerWrites : writeReturnedLimits(f, Fin(1, 2))
    \/ \E e \in Equities : updateEquity(e)
    \/ \E pl \in ProfitLosses : recordTrade([profitLoss |-> pl])
    \/ resetDailyPnL
    \/ isTradingAllowed


----------------------------------------------------------------------------
(* Concurrent callers of the RiskManager.  Route handlers are async, so    *)
(* several can be in flight; each call of a manager method is modelled     *)
(* statement by statement, and a caller takes a step only when no other    *)
(* caller is inside a method at a point that does not yield.               *)

\* the calls the concurrent callers make
CallerCalls ==
    { [op |-> "recordTrade", arg |-> Num(-500)],
      [op |-> "recordTrade", arg |-> Num(-100)],
      [op |-> "updateEquity", arg |-> Num(10000)],
      [op |-> "resetDailyPnL", arg |-> Num(0)],
      [op |-> "validatePosition", arg |-> Num(300)] }

\* the first statement of each method
FirstPc(op) ==
    CASE op = "recordTrade" -> "read"
      [] op = "updateEquity" -> "setEquity"
      [] op = "resetDailyPnL" -> "zeroPnL"
      [] op = "validatePosition" -> "checkHalt"

\* a manager whose methods hand control back before every statement
YieldsEverywhere(op, pc) == TRUE

\* does control return to the event loop before the statement at pc?  The
\* methods are synchronous: none is async and none holds an await
Yields(op, pc) == FALSE

\* caller d is inside a method and keeps the thread
Busy(d) ==
    /\ riskCallers[d].pc \notin {"idle", "done"}
    /\ ~Yields(riskCallers[d].op, riskCallers[d].pc)

CanStep(c) == \A d \in Callers \ {c} : ~Busy(d)

\* caller c calls a method; the state at the first call is kept
riskInvoke(c, call) ==
    /\ riskCallers[c].pc = "idle"
    /\ CanStep(c)
    /\ riskCallers' = [riskCallers EXCEPT ![c] =
                          [op |-> call.op, arg |-> call.arg, pc |-> FirstPc(call.op),
                           tmp |-> Num(0), ret |-> Null]]
    /\ riskStart' = IF riskStart = Null THEN RiskState ELSE riskStart
    /\ UNCHANGED <<limits, dailyPnL, peakEquity, currentEquity, tradingHalted, riskCall,
                   tripped, pnlSinceReset>>

\* the statement at caller c's position
riskStatement(c) ==
    LET me == riskCallers[c]
        Goto(pc) == riskCallers' = [riskCallers EXCEPT ![c].pc = pc]
    IN
    /\ me.pc \notin {"idle", "done"}
    /\ CanStep(c)
    /\ CASE me.pc = "read" ->
               \* this.dailyPnL += trade.profitLoss: the read
               /\ riskCallers' = [riskCallers EXCEPT ![c].tmp = dailyPnL, ![c].pc = "write"]
               /\ UNCHANGED <<dailyPnL, tradingHalted, currentEquity, peakEquity>>
         [] me.pc = "write" ->
               \* this.dailyPnL += trade.profitLoss: the write
               /\ dailyPnL' = NumAdd(me.tmp, me.arg)
               /\ Goto("test")
               /\ UNCHANGED <<tradingHalted, currentEquity, peakEquity>>
         [] me.pc = "test" ->
               /\ tradingHalted' = HaltedAfterTrade(dailyPnL)
               /\ Goto("done")
               /\ UNCHANGED <<dailyPnL, currentEquity, peakEquity>>
         [] me.pc = "setEquity" ->
               /\ currentEquity' = me.arg
               /\ Goto("raisePeak")
               /\ UNCHANGED <<dailyPnL, tradingHalted, peakEquity>>
         [] me.pc = "raisePeak" ->
               /\ peakEquity' = RaisedPeak(me.arg)
               /\ Goto("done")
               /\ UNCHANGED <<dailyPnL, tradingHalted, currentEquity>>
         [] me.pc = "zeroPnL" ->
               /\ dailyPnL' = Num(0)
               /\ Goto("clearHalt")
               /\ UNCHANGED <<tradingHalted, currentEquity, peakEquity>>
         [] me.pc = "clearHalt" ->
               /\ tradingHalted' = FALSE
               /\ Goto("done")
               /\ UNCHANGED <<dailyPnL, currentEquity, peakEquity>>
         [] me.pc = "checkHalt" ->
               /\ riskCallers' =
                      [riskCallers EXCEPT
                          ![c].ret = ValidatePosition(me.arg, Num(10000), <<>>),
                          ![c].pc = "done"]
               /\ UNCHANGED <<dailyPnL, tradingHalted, currentEquity, peakEquity>>
    /\ UNCHANGED <<limits, riskCall, tripped, pnlSinceReset, riskStart>>

\* before the callers arrive the equity is reported once
riskSetup ==
    /\ riskStart = Null
    /\ riskCall.op = "new"
    /\ updateEquity(Num(1000))
    /\ UNCHANGED <<riskCallers, riskStart>>

RiskCallersNext ==
    \/ riskSetup
    \/ \E c \in Callers, call \in CallerCalls : riskInvoke(c, call)
    \/ \E c \in Callers : riskStatement(c)

RiskCallersStep ==
    RiskCallersNext /\ UNCHANGED <<now, spikeVars, kellyVars, histVars, arbVars, btVars>>

\* The sequential meaning of a call: the state after it and what it returns
\* (for validatePosition, of a position within every limit: allowed).
RiskApply(st, call) ==
    CASE call.op = "recordTrade" ->
             LET pnl == NumAdd(st.dailyPnL, call.arg)
                 met == /\ NumGt(st.currentEquity, Num(0))
                        /\ NumGe(NumDiv(NumAbs(pnl), st.currentEquity),
                                 st.limits.maxDailyLoss)
             IN [st |-> [st EXCEPT !.dailyPnL = pnl,
                                   !.tradingHalted = IF met THEN TRUE ELSE @],
                 ret |-> Null]
      [] call.op = "updateEquity" ->
             [st |-> [st EXCEPT !.currentEquity = call.arg,
                                !.peakEquity = IF NumGt(call.arg, @) THEN call.arg ELSE @],
              ret |-> Null]
      [] call.op = "resetDailyPnL" ->
             [st |-> [st EXCEPT !.dailyPnL = Num(0), !.tradingHalted = FALSE],
              ret |-> Null]
      [] call.op = "validatePosition" ->
             [st |-> st, ret |-> ~st.tradingHalted]

----------------------------------------------------------------------------
(* Wall clock                                                              *)

TickMs == 1000
MaxNow == 2000

\* time passes between calls; a call reads one instant
Tick ==
    /\ now + TickMs <= MaxNow
    /\ now' = now + TickMs

\* new Date(t).toISOString() and new Date(s).getTime()
ToISOString(t) == [iso |-> t]
GetTime(s) == s.iso

----------------------------------------------------------------------------
(* SpikeDetector                                                           *)

defaultWindowSize == 3
MaxRecords == 4
MaxDetectedSpikes == 100

SpikeMarketIds == {"m1", "m2"}
SpikePrices == {Fin(1, 2), Fin(3, 5)}
SpikeSettings ==
    { [spikeThreshold |-> Fin(1, 10), cooldownMs |-> 1000],
      [spikeThreshold |-> Fin(1, 10), cooldownMs |-> 2000] }
\* Market snapshots handed to analyzeMarkets
SpikeMarkets ==
    { [id |-> m, question |-> "Q", outcomePrices |-> <<p, NumSub(Num(1), p)>>,
       volume |-> Num(10)] : m \in SpikeMarketIds, p \in SpikePrices }
SpikeMarketLists ==
    { <<>> } \cup { <<a>> : a \in SpikeMarkets }
             \cup { <<a, b>> : a \in {x \in SpikeMarkets : x.id = "m1"},
                               b \in SpikeMarkets }

MapGet(map, key, default) == IF key \in DOMAIN map THEN map[key] ELSE default
\* a map with one slot for all keys
MapSetAll(map, key, val) == [x \in DOMAIN map \cup {key} |-> val]

\* Map.prototype.set(key, val): the entry of key, the others as they were
MapSet(map, key, val) ==
    [x \in DOMAIN map \cup {key} |-> IF x = key THEN val ELSE map[x]]

MinInt(a, b) == IF a < b THEN a ELSE b

RECURSIVE SumPrices(_)
SumPrices(points) ==
    IF points = <<>> THEN Num(0)
    ELSE NumAdd(SumPrices(SubSeq(points, 1, Len(points) - 1)), points[Len(points)].price)

RECURSIVE CountRecorded(_, _)
CountRecorded(rec, ids) ==
    IF ids = {} THEN 0
    ELSE LET m == CHOOSE x \in ids : TRUE
         IN Len(rec[m]) + CountRecorded(rec, ids \ {m})

NumSpikeCallers == 2
SpikeCallerIds == 1..NumSpikeCallers

\* a caller that has not called yet
IdleSpikeCaller ==
    [op |-> "none", price |-> Num(0), pc |-> "idle", ref |-> -1, spike |-> Null,
     at |-> 0, ret |-> Null]

\* no concurrent caller has called: arrays holds the PricePoint[] objects by
\* identity (0: the one in the map at the first call, c: the one caller c
\* created), mapRef the one the map holds for the market (-1: none)
NoSpikeCallers ==
    [call |-> [c \in SpikeCallerIds |-> IdleSpikeCaller],
     arrays |-> [id \in 0..NumSpikeCallers |-> <<>>],
     mapRef |-> -1,
     start |-> Null]

SpikeInit ==
    /\ spikeCallers = NoSpikeCallers
    /\ priceHistory = [m \in {} |-> <<>>]
    /\ cooldowns = [m \in {} |-> 0]
    /\ detectedSpikes = <<>>
    /\ spikeCall = [op |-> "new", marketId |-> "", ret |-> Null]
    /\ recorded = [m \in {} |-> <<>>]
    /\ fired = <<>>

\* the detector's state, threaded through the calls of one handler
SpikeState ==
    [priceHistory |-> priceHistory, cooldowns |-> cooldowns,
     detectedSpikes |-> detectedSpikes, recorded |-> recorded, fired |-> fired]

\* a history that evicts the newest point
TrimHistoryNewest(history) ==
    IF Len(history) > defaultWindowSize
    THEN SubSeq(history, 1, Len(history) - 1) ELSE history

\* if (history.length > this.defaultWindowSize) history.shift()
TrimHistory(history) ==
    IF Len(history) > defaultWindowSize THEN Tail(history) ELSE history

RecordPrice(st, marketId, price, volume, t) ==
    LET point == [marketId |-> marketId, price |-> price, timestamp |-> t,
                  volume |-> volume]
        history == Append(MapGet(st.priceHistory, marketId, <<>>), point)
    IN [st EXCEPT
          !.priceHistory = MapSet(@, marketId, TrimHistory(history)),
          !.recorded = MapSet(@, marketId, Append(MapGet(@, marketId, <<>>), point))]

\* a detector that never looks at the cooldown
InCooldownNever(st, marketId, t) == FALSE

\* Date.now() < (this.cooldowns.get(marketId) || 0)
InCooldown(st, marketId, t) == t < MapGet(st.cooldowns, marketId, 0)

\* a cooldown that never ends
CooldownEndNever(settings, t) == t + settings.cooldownMs + MaxNow + TickMs

\* Date.now() + settings.cooldownMs
CooldownEnd(settings, t) == t + settings.cooldownMs

\* a detector content with two points
TooFewPointsTwo(n) == n < 2

\* !history || history.length < 3, on the length of the history (0 if none)
TooFewPoints(n) == n < 3

\* the event detectSpike creates from the newest point and the price move
SpikeEvent(marketId, point, avgRecentPrice, priceChange, priceChangePercent, settings, t) ==
    LET direction == IF NumGt(priceChange, Num(0)) THEN "up" ELSE "down"
        confidence ==
            MathMin(NumDiv(priceChangePercent, NumMul(settings.spikeThreshold, Num(2))),
                    Num(1))
        suggestedAction ==
            IF direction = "up" /\ NumGt(confidence, Fin(3, 5)) THEN "buy_no"
            ELSE IF direction = "down" /\ NumGt(confidence, Fin(3, 5)) THEN "buy_yes"
            ELSE "wait"
    IN [id |-> [marketId |-> marketId, at |-> t],
        marketId |-> marketId,
        marketQuestion |-> "",
        priceChange |-> priceChange,
        priceChangePercent |-> priceChangePercent,
        direction |-> direction,
        previousPrice |-> avgRecentPrice,
        currentPrice |-> point.price,
        volume |-> IF Truthy(point.volume) THEN point.volume ELSE Num(0),
        detectedAt |-> ToISOString(t),
        confidence |-> confidence,
        suggestedAction |-> suggestedAction]

\* the event is pushed on the log, the oldest is shifted out past 100 events,
\* the cooldown is set, and the event is returned
Detected(st, spike, settings, t) ==
    LET pushed == Append(st.detectedSpikes, spike)
    IN [st |-> [st EXCEPT
                  !.detectedSpikes =
                      IF Len(pushed) > MaxDetectedSpikes THEN Tail(pushed) ELSE pushed,
                  !.cooldowns = MapSet(@, spike.marketId, CooldownEnd(settings, t)),
                  !.fired = Append(@, [marketId |-> spike.marketId, at |-> t,
                                       cooldownMs |-> settings.cooldownMs,
                                       event |-> spike])],
        ret |-> spike]

\* detectSpike: [st |-> the state after the call, ret |-> the event or Null]
DetectSpike(st, marketId, settings, t) ==
    LET history == MapGet(st.priceHistory, marketId, <<>>)
        n == Len(history)
    IN
    IF TooFewPoints(n) THEN [st |-> st, ret |-> Null]
    ELSE IF InCooldown(st, marketId, t) THEN [st |-> st, ret |-> Null]
    ELSE
    LET currentPrice == history[n].price
        recentPrices == SubSeq(history, n - MinInt(5, n) + 1, n)
        k == Len(recentPrices)
        avgRecentPrice ==
            NumDiv(SumPrices(SubSeq(recentPrices, 1, k - 1)), Num(k - 1))
        priceChange == NumSub(currentPrice, avgRecentPrice)
        priceChangePercent == NumAbs(NumDiv(priceChange, avgRecentPrice))
    IN
    IF NumLt(priceChangePercent, settings.spikeThreshold)
    THEN [st |-> st, ret |-> Null]
    ELSE Detected(st, SpikeEvent(marketId, history[n], avgRecentPrice, priceChange,
                                 priceChangePercent, settings, t),
                  settings, t)

\* the loop body's if (spike): the event returned by detectSpike is the object
\* just pushed on detectedSpikes, so the assignment to spike.marketQuestion
\* shows in the log as well
NamedSpike(before, det, market) ==
    IF det.ret = Null
    THEN [st |-> det.st, ret |-> before.ret]
    ELSE [st |-> [det.st EXCEPT
                    !.detectedSpikes[Len(det.st.detectedSpikes)] =
                        [det.ret EXCEPT !.marketQuestion = market.question]],
          ret |-> Append(before.ret, [det.ret EXCEPT !.marketQuestion = market.question])]

\* one pass of the loop: recordPrice, then detectSpike, for one market
AnalyzeMarket(before, market, settings, t) ==
    NamedSpike(before,
               DetectSpike(RecordPrice(before.st, market.id, market.outcomePrices[1],
                                       market.volume, t),
                           market.id, settings, t),
               market)

\* analyzeMarkets: [st |-> the state after the loop, ret |-> the events]
RECURSIVE AnalyzeMarkets(_, _, _, _)
AnalyzeMarkets(st, markets, settings, t) ==
    IF markets = <<>> THEN [st |-> st, ret |-> <<>>]
    ELSE AnalyzeMarket(AnalyzeMarkets(st, SubSeq(markets, 1, Len(markets) - 1), settings, t),
                       markets[Len(markets)], settings, t)

SetSpikeState(st) ==
    /\ priceHistory' = st.priceHistory
    /\ cooldowns' = st.cooldowns
    /\ detectedSpikes' = st.detectedSpikes
    /\ recorded' = st.recorded
    /\ fired' = st.fired

\* the call returns: the detector's state and the call's result are stored
SpikeReturn(op, marketId, r) ==
    /\ SetSpikeState(r.st)
    /\ spikeCall' = [op |-> op, marketId |-> marketId, ret |-> r.ret]

recordPrice(marketId, price, volume) ==
    /\ CountRecorded(recorded, DOMAIN recorded) < MaxRecords
    /\ SetSpikeState(RecordPrice(SpikeState, marketId, price, volume, now))
    /\ spikeCall' = [op |-> "recordPrice", marketId |-> marketId, ret |-> Null]

detectSpike(marketId, settings) ==
    SpikeReturn("detectSpike", marketId, DetectSpike(SpikeState, marketId, settings, now))

analyzeMarkets(markets, settings) ==
    /\ CountRecorded(recorded, DOMAIN recorded) + Len(markets) <= MaxRecords
    /\ SpikeReturn("analyzeMarkets", "", AnalyzeMarkets(SpikeState, markets, settings, now))

RECURSIVE Reverse(_)
Reverse(list) ==
    IF list = <<>> THEN <<>>
    ELSE Append(Reverse(Tail(list)), Head(list))

\* Array.prototype.slice(start) for an integer start: a negative start counts
\* from the end, and -0 is 0
SliceFrom(list, start) ==
    LET len == Len(list)
        from == IF start < 0 THEN (IF len + start < 0 THEN 0 ELSE len + start)
                ELSE IF start > len THEN len ELSE start
    IN SubSeq(list, from + 1, len)

\* this.detectedSpikes.slice(-limit).reverse()
RecentSpikes(list, limit) == Reverse(SliceFrom(list, -limit))

\* a getter that reverses the log itself
LogAfterReadReversed(list) == Reverse(list)

\* the log after getRecentSpikes: slice() copies, reverse() turns the copy
LogAfterRead(list) == list

getRecentSpikes(limit) ==
    /\ spikeCall' = [op |-> "getRecentSpikes", marketId |-> "", limit |-> limit,
                     ret |-> RecentSpikes(detectedSpikes, limit)]
    /\ detectedSpikes' = LogAfterRead(detectedSpikes)
    /\ UNCHANGED <<priceHistory, cooldowns, recorded, fired>>

SpikeNext ==
    \/ \E m \in SpikeMarketIds, p \in SpikePrices : recordPrice(m, p, Undefined)
    \/ \E m \in SpikeMarketIds, s \in SpikeSettings : detectSpike(m, s)
    \/ \E ms \in SpikeMarketLists, s \in SpikeSettings : analyzeMarkets(ms, s)

SpikeStep ==
    \/ /\ SpikeNext
       /\ UNCHANGED spikeCallers
       /\ UNCHANGED <<now, riskVars, kellyVars, histVars, arbVars, btVars>>
    \/ Tick /\ UNCHANGED <<riskVars, spikeVars, kellyVars, histVars, arbVars, btVars>>

----------------------------------------------------------------------------
(* KellyCriterion                                                          *)

\* inputs, within the ranges of kellyInputSchema
KellyPrices == {Fin(1, 100), Fin(2, 5), Fin(1, 2), Fin(3, 5), Fin(99, 100)}
KellyBankrolls == {Num(1), Num(333), Num(10000)}
KellyFractions == {Fin(1, 10), Fin(1, 5), Fin(1, 2), Num(1)}
KellyCaps == {Fin(1, 100), Fin(1, 20), Fin(1, 4)}
KellyInputs ==
    [currentPrice : KellyPrices, estimatedProbability : KellyPrices,
     bankroll : KellyBankrolls, kellyFraction : KellyFractions,
     maxPositionPercent : KellyCaps]

\* Math.round: the nearest integer, a half rounding up
MathRound(a) ==
    IF a.k = "fin" THEN Num((2 * a.n + a.d) \div (2 * a.d)) ELSE a

KellyInit ==
    kellyCall = [op |-> "new", input |-> Null, ret |-> Null]

\* a fraction that is not capped
CappedKellyUncapped(adjustedKelly, maxPositionPercent) == adjustedKelly

\* Math.min(adjustedKelly, maxPositionPercent)
CappedKelly(adjustedKelly, maxPositionPercent) ==
    MathMin(adjustedKelly, maxPositionPercent)

\* thresholds that exclude their boundary value
RecommendationStrict(cappedKelly) ==
    IF NumGt(cappedKelly, Fin(1, 25)) THEN "strong_buy"
    ELSE IF NumGt(cappedKelly, Fin(1, 50)) THEN "buy"
    ELSE IF NumGt(cappedKelly, Num(0)) THEN "hold"
    ELSE "avoid"

Recommendation(cappedKelly) ==
    IF NumGe(cappedKelly, Fin(1, 25)) THEN "strong_buy"
    ELSE IF NumGe(cappedKelly, Fin(1, 50)) THEN "buy"
    ELSE IF NumGt(cappedKelly, Num(0)) THEN "hold"
    ELSE "avoid"

CalculateKelly(input) ==
    LET edge == NumSub(input.estimatedProbability, input.currentPrice) IN
    IF NumLe(edge, Num(0))
    THEN [fraction |-> Num(0), positionSize |-> Num(0), edge |-> edge,
          confidence |-> Num(0), recommendation |-> "avoid"]
    ELSE
    LET rawKelly == NumDiv(edge, input.currentPrice)
        adjustedKelly == NumMul(rawKelly, input.kellyFraction)
        cappedKelly == CappedKelly(adjustedKelly, input.maxPositionPercent)
        positionSize == NumMul(input.bankroll, cappedKelly)
        confidence == MathMin(NumDiv(edge, Fin(3, 20)), Num(1))
    IN [fraction |-> cappedKelly,
        positionSize |-> NumDiv(MathRound(NumMul(positionSize, Num(100))), Num(100)),
        edge |-> edge,
        confidence |-> confidence,
        recommendation |-> Recommendation(cappedKelly)]

calculateKelly(input) ==
    kellyCall' = [op |-> "calculateKelly", input |-> input, ret |-> CalculateKelly(input)]

KellyNext == \E input \in KellyInputs : calculateKelly(input)

KellyStep == KellyNext /\ UNCHANGED <<now, riskVars, spikeVars, histVars, arbVars, btVars>>

----------------------------------------------------------------------------
(* KellyCriterion: the rolling trade history                               *)

lookbackPeriod == 40
scalingFactor == Fin(1, 2)
MinTrades == 10
MaxTrades == 42

\* inputs: the profit or loss of a trade, and the capital it was taken on
HistProfitLosses == {Num(-10), Num(0), Num(20)}
HistCapital == Num(1000)

\* the trade streams fed to addTrade: a run of one outcome, then a run of
\* another
TwoRuns(trades) ==
    \E k \in 0..Len(trades) :
        /\ \A i \in 1..k : trades[i] = trades[1]
        /\ \A i \in (k + 1)..Len(trades) : trades[i] = trades[Len(trades)]

HistInit ==
    /\ tradeHistory = <<>>
    /\ histCall = [op |-> "new", ret |-> Null]
    /\ added = <<>>

\* a history that drops the newest trade
TrimTradesNewest(history) ==
    IF Len(history) > lookbackPeriod
    THEN SubSeq(history, 1, Len(history) - 1) ELSE history

\* if (this.tradeHistory.length > this.lookbackPeriod) this.tradeHistory.shift()
TrimTrades(history) ==
    IF Len(history) > lookbackPeriod THEN Tail(history) ELSE history

addTrade(profitLoss, capital) ==
    LET trade == [profitLoss |-> profitLoss, capital |-> capital] IN
    /\ Len(added) < MaxTrades
    /\ TwoRuns(Append(added, trade))
    /\ tradeHistory' = TrimTrades(Append(tradeHistory, trade))
    /\ added' = Append(added, trade)
    /\ histCall' = [op |-> "addTrade", ret |-> Null]

RECURSIVE SumTradePnL(_)
SumTradePnL(trades) ==
    IF trades = <<>> THEN Num(0)
    ELSE NumAdd(SumTradePnL(SubSeq(trades, 1, Len(trades) - 1)),
                trades[Len(trades)].profitLoss)

\* calculateHistoricalMetrics on the history: the metrics, or Null
HistoricalMetrics(history) ==
    IF Len(history) < MinTrades THEN Null
    ELSE
    LET Win(t) == NumGt(t.profitLoss, Num(0))
        Loss(t) == NumLe(t.profitLoss, Num(0))
        wins == SelectSeq(history, Win)
        losses == SelectSeq(history, Loss)
        winRate == NumDiv(Num(Len(wins)), Num(Len(history)))
        avgWin == IF Len(wins) > 0 THEN NumDiv(SumTradePnL(wins), Num(Len(wins)))
                  ELSE Num(0)
        avgLoss == IF Len(losses) > 0
                   THEN NumAbs(NumDiv(SumTradePnL(losses), Num(Len(losses))))
                   ELSE Num(0)
        expectancy == NumSub(NumMul(winRate, avgWin),
                             NumMul(NumSub(Num(1), winRate), avgLoss))
    IN [winRate |-> winRate, avgWin |-> avgWin, avgLoss |-> avgLoss,
        expectancy |-> expectancy]

calculateHistoricalMetrics ==
    /\ histCall' = [op |-> "calculateHistoricalMetrics",
                    ret |-> HistoricalMetrics(tradeHistory)]
    /\ UNCHANGED <<tradeHistory, added>>

\* a clamp without its floor
ClampedFractionNoFloor(kelly) ==
    MathMin(NumMul(kelly, scalingFactor), Fin(1, 4))

\* Math.max(0, Math.min(kelly * this.scalingFactor, 0.25))
ClampedFraction(kelly) ==
    MathMax(Num(0), MathMin(NumMul(kelly, scalingFactor), Fin(1, 4)))

OptimalFraction(history) ==
    LET metrics == HistoricalMetrics(history) IN
    IF metrics = Null \/ metrics.avgLoss = Num(0) THEN Fin(2, 100)
    ELSE
    LET rewardRisk == NumDiv(metrics.avgWin, metrics.avgLoss)
        kelly == NumDiv(NumSub(NumMul(metrics.winRate, rewardRisk),
                               NumSub(Num(1), metrics.winRate)),
                        rewardRisk)
    IN ClampedFraction(kelly)

calculateOptimalFraction ==
    /\ histCall' = [op |-> "calculateOptimalFraction",
                    ret |-> OptimalFraction(tradeHistory)]
    /\ UNCHANGED <<tradeHistory, added>>

HistNext ==
    \/ \E pl \in HistProfitLosses : addTrade(pl, HistCapital)
    \/ calculateHistoricalMetrics
    \/ calculateOptimalFraction

HistStep == HistNext /\ UNCHANGED <<now, riskVars, spikeVars, kellyVars, arbVars, btVars>>

----------------------------------------------------------------------------
(* ArbitrageScanner                                                        *)

TRANSACTION_FEE == Fin(2, 100)
RetentionMs == 300000
MaxOpportunities == 50

ArbTickMs == 150000
ArbMaxNow == 450000
MaxScans == 3
BulkSize == 26

\* minutes pass between scans
ArbTick ==
    /\ now + ArbTickMs <= ArbMaxNow
    /\ now' = now + ArbTickMs

ArbMarket(id, nOutcomes, prices) ==
    [id |-> id, question |-> "Q", outcomes |-> [i \in 1..nOutcomes |-> "o"],
     outcomePrices |-> prices]
MarketA == ArbMarket(1, 2, <<Fin(45, 100), Fin(1, 2)>>)
MarketB == ArbMarket(2, 2, <<Fin(1, 2), Fin(52, 100)>>)
MarketC == ArbMarket(3, 3, <<Fin(1, 5), Fin(1, 5), Fin(1, 5)>>)
MarketD == ArbMarket(4, 2, <<Fin(49, 100), Fin(49, 100)>>)
\* many mispriced markets in one snapshot
BulkMarkets == [i \in 1..BulkSize |-> ArbMarket(100 + i, 2, <<Fin(2, 5), Fin(1, 2)>>)]
ArbMarketLists ==
    { <<>>, <<MarketB>>, <<MarketD>>, <<MarketB, MarketA>>, <<MarketA, MarketC>>,
      BulkMarkets }

ArbId(marketId, t) == [kind |-> "arb", marketId |-> marketId, at |-> t]
UnknownId == [kind |-> "arb", marketId |-> 0, at |-> 0]

ArbInit ==
    /\ opportunities = <<>>
    /\ arbCall = [op |-> "new", at |-> 0, markets |-> <<>>, ret |-> <<>>]
    /\ prevOpportunities = <<>>
    /\ scans = 0

\* yesPrice + noPrice + TRANSACTION_FEE
NetCost(market) ==
    NumAdd(NumAdd(market.outcomePrices[1], market.outcomePrices[2]), TRANSACTION_FEE)

\* a scan that does not look at the number of outcomes
IsBinaryArbitrageAnyOutcomes(market) == NumLt(NetCost(market), Num(1))

\* the markets scanBinaryArbitrage flags
IsBinaryArbitrage(market) ==
    /\ Len(market.outcomes) = 2
    /\ NumLt(NetCost(market), Num(1))

Opportunity(market, t) ==
    LET netCost == NetCost(market)
        profit == NumSub(Num(1), netCost)
    IN [id |-> ArbId(market.id, t),
        type |-> "binary",
        market1 |-> [id |-> market.id, question |-> <<market.question>>,
                     price |-> market.outcomePrices[1], platform |-> "polymarket"],
        market2 |-> [id |-> market.id, question |-> <<market.question, " (NO)">>,
                     price |-> market.outcomePrices[2], platform |-> "polymarket"],
        totalCost |-> netCost,
        guaranteedPayout |-> Num(1),
        profit |-> profit,
        profitPercent |-> NumMul(NumDiv(profit, netCost), Num(100)),
        detectedAt |-> ToISOString(t),
        status |-> "active"]

\* the loop of scanBinaryArbitrage: the opportunities of markets, in order
RECURSIVE NewOpportunities(_, _)
NewOpportunities(markets, t) ==
    IF markets = <<>> THEN <<>>
    ELSE LET n == Len(markets)
             before == NewOpportunities(SubSeq(markets, 1, n - 1), t)
         IN IF IsBinaryArbitrage(markets[n])
            THEN Append(before, Opportunity(markets[n], t))
            ELSE before

\* an opportunity is retained up to and including its fifth minute
UnexpiredInclusive(o, t) == t - GetTime(o.detectedAt) <= RetentionMs

\* Date.now() - new Date(o.detectedAt).getTime() < 300000
Unexpired(o, t) == t - GetTime(o.detectedAt) < RetentionMs

\* a registry that is never truncated
TruncateNever(list) == list

\* .slice(0, 50)
Truncate(list) ==
    IF Len(list) > MaxOpportunities THEN SubSeq(list, 1, MaxOpportunities) ELSE list

\* [...newOpportunities, ...this.opportunities.filter(unexpired)].slice(0, 50)
MergeRegistry(newOpportunities, old, t) ==
    LET Keep(o) == Unexpired(o, t)
    IN Truncate(newOpportunities \o SelectSeq(old, Keep))

scanBinaryArbitrage(markets) ==
    LET newOpportunities == NewOpportunities(markets, now) IN
    /\ scans < MaxScans
    /\ scans' = scans + 1
    /\ prevOpportunities' = opportunities
    /\ opportunities' = MergeRegistry(newOpportunities, opportunities, now)
    /\ arbCall' = [op |-> "scanBinaryArbitrage", at |-> now, markets |-> markets,
                   ret |-> newOpportunities]

getActiveOpportunities ==
    LET Active(o) == o.status = "active" IN
    /\ arbCall' = [op |-> "getActiveOpportunities", at |-> now, markets |-> <<>>,
                   ret |-> SelectSeq(opportunities, Active)]
    /\ prevOpportunities' = opportunities
    /\ UNCHANGED <<opportunities, scans>>

\* this.opportunities.find(o => o.id === opportunityId): its index, 0 if none
FindOpportunity(opportunityId) ==
    LET hits == {i \in 1..Len(opportunities) : opportunities[i].id = opportunityId}
    IN IF hits = {} THEN 0 ELSE CHOOSE i \in hits : \A j \in hits : i <= j

\* a markExecuted that marks the whole registry
MarkedExecutedAll(list, i) ==
    [j \in 1..Len(list) |-> [list[j] EXCEPT !.status = "executed"]]

\* if (opp) opp.status = "executed"
MarkedExecuted(list, i) ==
    IF i = 0 THEN list ELSE [list EXCEPT ![i].status = "executed"]

markExecuted(opportunityId) ==
    LET i == FindOpportunity(opportunityId) IN
    /\ opportunities' = MarkedExecuted(opportunities, i)
    /\ prevOpportunities' = opportunities
    /\ arbCall' = [op |-> "markExecuted", at |-> now, markets |-> <<>>, ret |-> <<>>,
                   id |-> opportunityId]
    /\ UNCHANGED scans

ArbNext ==
    \/ \E ms \in ArbMarketLists : scanBinaryArbitrage(ms)
    \/ getActiveOpportunities
    \/ \E i \in 1..MinInt(2, Len(opportunities)) : markExecuted(opportunities[i].id)
    \/ markExecuted(UnknownId)

ArbStep ==
    \/ ArbNext /\ UNCHANGED <<now, riskVars, spikeVars, kellyVars, histVars, btVars>>
    \/ ArbTick /\ UNCHANGED <<riskVars, spikeVars, kellyVars, histVars, arbVars, btVars>>

----------------------------------------------------------------------------
(* ArbitrageScanner: the multi-market scan.  A question is the sequence of *)
(* its words, in lower case and stripped of punctuation.                   *)

StopWords == {"will", "the", "a", "an", "in", "on", "at", "by", "to", "of", "for"}
\* the words of the questions below that have one or two letters
ShortWords == {"a", "an", "in", "on", "at", "by", "to", "of", "eu", "us"}

\* text...split(/\s+/).filter(w => w.length > 2 && !stopWords.has(w)).slice(0, 5)
ExtractKeywords(words) ==
    LET Keyword(w) == w \notin ShortWords /\ w \notin StopWords
        kept == SelectSeq(words, Keyword)
    IN SubSeq(kept, 1, MinInt(5, Len(kept)))

\* keywords.slice(0, 3).join("-")
GroupKey(market) ==
    LET keywords == ExtractKeywords(market.question)
    IN SubSeq(keywords, 1, MinInt(3, Len(keywords)))

\* groupSimilarMarkets: the markets of each key in their order, the groups in
\* the order of their first market, the groups of one market dropped
RECURSIVE GroupKeys(_)
GroupKeys(markets) ==
    IF markets = <<>> THEN <<>>
    ELSE LET n == Len(markets)
             before == GroupKeys(SubSeq(markets, 1, n - 1))
         IN IF \E i \in 1..Len(before) : before[i] = GroupKey(markets[n])
            THEN before ELSE Append(before, GroupKey(markets[n]))

GroupOf(markets, key) ==
    LET InGroup(mk) == GroupKey(mk) = key IN SelectSeq(markets, InGroup)

GroupSimilarMarkets(markets) ==
    LET groups == [i \in 1..Len(GroupKeys(markets)) |-> GroupOf(markets, GroupKeys(markets)[i])]
        Several(g) == Len(g) >= 2
    IN SelectSeq(groups, Several)

MultiId(m1, m2, t) == [kind |-> "multi", marketId |-> m1.id, marketId2 |-> m2.id, at |-> t]

MultiOpportunity(m1, m2, t) ==
    LET cost == NumAdd(m1.outcomePrices[1], m2.outcomePrices[2])
    IN [id |-> MultiId(m1, m2, t),
        type |-> "multi_market",
        market1 |-> [id |-> m1.id, question |-> m1.question,
                     price |-> m1.outcomePrices[1], platform |-> "polymarket"],
        market2 |-> [id |-> m2.id, question |-> m2.question,
                     price |-> m2.outcomePrices[2], platform |-> "polymarket"],
        totalCost |-> cost,
        guaranteedPayout |-> Num(1),
        profit |-> NumSub(NumSub(Num(1), cost), TRANSACTION_FEE),
        profitPercent |->
            NumMul(NumDiv(NumSub(NumSub(Num(1), m1.outcomePrices[1]), m2.outcomePrices[2]),
                          cost),
                   Num(100)),
        detectedAt |-> ToISOString(t),
        status |-> "active"]

\* the pairs i < j of a group, i ascending and j ascending within i
RECURSIVE GroupPairs(_, _, _)
GroupPairs(n, i, j) ==
    IF i >= n THEN <<>>
    ELSE IF j > n THEN GroupPairs(n, i + 1, i + 2)
    ELSE <<[i |-> i, j |-> j]>> \o GroupPairs(n, i, j + 1)

\* if (m1YesPrice + m2NoPrice < 0.98) opportunities.push(...)
GroupOpportunities(group, t) ==
    LET pairs == GroupPairs(Len(group), 1, 2)
        Cheap(p) == NumLt(NumAdd(group[p.i].outcomePrices[1], group[p.j].outcomePrices[2]),
                          Fin(98, 100))
        cheap == SelectSeq(pairs, Cheap)
    IN [k \in 1..Len(cheap) |-> MultiOpportunity(group[cheap[k].i], group[cheap[k].j], t)]

RECURSIVE MultiOpportunities(_, _)
MultiOpportunities(groups, t) ==
    IF groups = <<>> THEN <<>>
    ELSE GroupOpportunities(Head(groups), t) \o MultiOpportunities(Tail(groups), t)

\* a multi-market scan that registers what it finds, as the binary scan does
RegistryAfterMultiScanMerged(registry, found, t) == MergeRegistry(found, registry, t)

\* this.opportunities after scanMultiMarketArbitrage: the method fills a
\* local array and returns it
RegistryAfterMultiScan(registry, found, t) == registry

scanMultiMarketArbitrage(markets) ==
    LET found == MultiOpportunities(GroupSimilarMarkets(markets), now) IN
    /\ opportunities' = RegistryAfterMultiScan(opportunities, found, now)
    /\ prevOpportunities' = opportunities
    /\ arbCall' = [op |-> "scanMultiMarketArbitrage", at |-> now, markets |-> markets,
                   ret |-> found]
    /\ UNCHANGED scans

QuestionMarket(id, words, prices) ==
    [id |-> id, question |-> words, outcomes |-> <<"Yes", "No">>, outcomePrices |-> prices]
BtcJune == QuestionMarket(11, <<"will", "btc", "hit", "100k", "by", "june">>,
                          <<Fin(2, 5), Fin(3, 5)>>)
BtcJuly == QuestionMarket(12, <<"will", "btc", "hit", "100k", "in", "july">>,
                          <<Fin(1, 2), Fin(9, 20)>>)
BtcDear == QuestionMarket(13, <<"btc", "hit", "100k", "us">>,
                          <<Fin(3, 10), Fin(2, 5)>>)
EuVote == QuestionMarket(14, <<"will", "the", "eu", "vote", "pass">>,
                         <<Fin(9, 20), Fin(1, 2)>>)
RouteMarketLists ==
    { <<BtcJune, EuVote>>, <<EuVote, BtcJuly, BtcDear, BtcJune>> }

\* the ids a client executes: those of the two newest registered
\* opportunities and of the multi-market scan just returned
SeenIds ==
    {opportunities[i].id : i \in 1..MinInt(2, Len(opportunities))}
        \cup IF arbCall.op = "scanMultiMarketArbitrage"
             THEN {arbCall.ret[i].id : i \in 1..Len(arbCall.ret)} ELSE {}

\* POST /api/trading/arbitrage/scan calls both scans on one snapshot; the
\* other routes call getActiveOpportunities and markExecuted
ArbRoutesNext ==
    \/ \E ms \in RouteMarketLists : scanBinaryArbitrage(ms)
    \/ /\ arbCall.op = "scanBinaryArbitrage"
       /\ arbCall.at = now
       /\ scanMultiMarketArbitrage(arbCall.markets)
    \/ getActiveOpportunities
    \/ \E id \in SeenIds : markExecuted(id)

ArbRoutesStep ==
    \/ ArbRoutesNext /\ UNCHANGED <<now, riskVars, spikeVars, kellyVars, histVars, btVars>>
    \/ ArbTick /\ UNCHANGED <<riskVars, spikeVars, kellyVars, histVars, arbVars, btVars>>

----------------------------------------------------------------------------
(* BacktestingEngine                                                       *)

MaxDays == 3
MaxResults == 20
DayMs == 86400000

BtMarket(id, yes, no) == [id |-> id, outcomePrices |-> <<yes, no>>]
\* one day's market snapshots
BtDays ==
    { <<BtMarket(1, Fin(1, 2), Fin(1, 2))>>,
      <<BtMarket(1, Fin(1, 4), Fin(1, 2))>>,
      <<BtMarket(1, Fin(1, 2), Fin(1, 2)), BtMarket(2, Fin(1, 4), Fin(1, 4))>> }
RECURSIVE Histories(_)
Histories(n) ==
    IF n = 0 THEN { <<>> }
    ELSE LET shorter == Histories(n - 1)
         IN shorter \cup { Append(h, d) : h \in {x \in shorter : Len(x) = n - 1}, d \in BtDays }

NoSettings ==
    [positionPercent |-> Undefined, spikeThreshold |-> Undefined,
     minProfit |-> Undefined, kellyFraction |-> Undefined]
BtSettings ==
    { NoSettings,
      [positionPercent |-> Fin(1, 10), spikeThreshold |-> Fin(3, 4),
       minProfit |-> Fin(3, 10), kellyFraction |-> Fin(1, 10)] }
BtConfigs ==
    [strategy : {"spike", "arbitrage", "statistical", "kelly"},
     initialCapital : {Num(100)},
     settings : BtSettings]

\* values Math.random() may return, one pair per market of a day: the first
\* for the probability estimate, the second for the outcome
RandomValues == {Num(0), Fin(9, 10)}
Draws(n) == [1..n -> [est : RandomValues, outcome : RandomValues]]

\* settings.x || fallback
OrDefault(x, fallback) == IF Truthy(x) THEN x ELSE fallback

BtIdle ==
    [pc |-> "idle", config |-> Null, historicalData |-> <<>>, i |-> 0,
     equity |-> Num(0), peakEquity |-> Num(0), maxDrawdown |-> Num(0),
     equityCurve |-> <<>>, trades |-> <<>>]

BtInit ==
    /\ results = <<>>
    /\ bt = BtIdle
    /\ btTrace = <<>>
    /\ btCall = [op |-> "new", ret |-> Null]
    /\ finished = <<>>

\* prevMarkets.find(m => m.id === id): its index, 0 if none
FindMarket(markets, id) ==
    LET hits == {i \in 1..Len(markets) : markets[i].id = id}
    IN IF hits = {} THEN 0 ELSE CHOOSE i \in hits : \A j \in hits : i <= j

\* a trade booked with the opposite sign
TradeReversed(t, marketId, side, entryPrice, exitPrice, quantity, profitLoss, profitLossPercent) ==
    [entryDate |-> ToISOString(t), exitDate |-> ToISOString(t), marketId |-> marketId,
     side |-> side, entryPrice |-> entryPrice, exitPrice |-> exitPrice,
     quantity |-> quantity, profitLoss |-> NumSub(Num(0), profitLoss),
     profitLossPercent |-> NumSub(Num(0), profitLossPercent)]

\* the BacktestTrade pushed by a simulator
Trade(t, marketId, side, entryPrice, exitPrice, quantity, profitLoss, profitLossPercent) ==
    [entryDate |-> ToISOString(t), exitDate |-> ToISOString(t), marketId |-> marketId,
     side |-> side, entryPrice |-> entryPrice, exitPrice |-> exitPrice,
     quantity |-> quantity, profitLoss |-> profitLoss,
     profitLossPercent |-> profitLossPercent]

RECURSIVE SimulateSpikeTrades(_, _, _, _, _)
SimulateSpikeTrades(prevMarkets, currMarkets, positionSize, settings, t) ==
    IF currMarkets = <<>> THEN <<>>
    ELSE
    LET n == Len(currMarkets)
        before == SimulateSpikeTrades(prevMarkets, SubSeq(currMarkets, 1, n - 1),
                                      positionSize, settings, t)
        curr == currMarkets[n]
        p == FindMarket(prevMarkets, curr.id)
    IN IF p = 0 THEN before
       ELSE
       LET prev == prevMarkets[p]
           spikeThreshold == OrDefault(settings.spikeThreshold, Fin(2, 100))
           priceChange == NumAbs(NumSub(curr.outcomePrices[1], prev.outcomePrices[1]))
           priceChangePercent == NumDiv(priceChange, prev.outcomePrices[1])
           up == NumGt(curr.outcomePrices[1], prev.outcomePrices[1])
           entryPrice == curr.outcomePrices[1]
           reversionAmount == NumMul(priceChange, Fin(1, 2))
           exitPrice == IF up THEN NumSub(entryPrice, reversionAmount)
                        ELSE NumAdd(entryPrice, reversionAmount)
           quantity == NumDiv(positionSize, entryPrice)
           profitLoss == NumMul(NumMul(quantity, NumSub(exitPrice, entryPrice)),
                                IF up THEN Num(-1) ELSE Num(1))
       IN IF NumGt(priceChangePercent, spikeThreshold)
          THEN Append(before,
                      Trade(t, curr.id, IF up THEN "NO" ELSE "YES", entryPrice, exitPrice,
                            quantity, profitLoss,
                            NumMul(NumDiv(profitLoss, positionSize), Num(100))))
          ELSE before

RECURSIVE SimulateArbitrageTrades(_, _, _, _)
SimulateArbitrageTrades(markets, positionSize, settings, t) ==
    IF markets = <<>> THEN <<>>
    ELSE
    LET n == Len(markets)
        before == SimulateArbitrageTrades(SubSeq(markets, 1, n - 1), positionSize,
                                          settings, t)
        market == markets[n]
        minProfit == OrDefault(settings.minProfit, Fin(2, 100))
        totalCost == NumAdd(market.outcomePrices[1], market.outcomePrices[2])
        profit == NumMul(NumSub(Num(1), totalCost), positionSize)
    IN IF NumLt(totalCost, NumSub(Num(1), minProfit))
       THEN Append(before,
                   Trade(t, market.id, "YES", totalCost, Num(1),
                         NumDiv(positionSize, totalCost), profit,
                         NumMul(NumDiv(NumSub(Num(1), totalCost), totalCost), Num(100))))
       ELSE before

\* draws[j] holds the two Math.random() values used for currMarkets[j]
RECURSIVE SimulateKellyTrades(_, _, _, _, _, _)
SimulateKellyTrades(prevMarkets, currMarkets, equity, settings, draws, t) ==
    IF currMarkets = <<>> THEN <<>>
    ELSE
    LET n == Len(currMarkets)
        before == SimulateKellyTrades(prevMarkets, SubSeq(currMarkets, 1, n - 1), equity,
                                      settings, draws, t)
        curr == currMarkets[n]
        kellyFraction == OrDefault(settings.kellyFraction, Fin(1, 2))
        estimatedProb ==
            NumAdd(Fin(1, 2), NumMul(NumSub(draws[n].est, Fin(1, 2)), Fin(3, 10)))
        currentPrice == curr.outcomePrices[1]
        edge == NumSub(estimatedProb, currentPrice)
        fraction == MathMin(NumMul(NumDiv(edge, currentPrice), kellyFraction), Fin(5, 100))
        positionSize == NumMul(equity, fraction)
        outcomeWin == NumLt(draws[n].outcome, estimatedProb)
        profitLoss ==
            IF outcomeWin
            THEN NumMul(positionSize, NumSub(NumDiv(Num(1), currentPrice), Num(1)))
            ELSE NumNeg(positionSize)
    IN IF NumGt(edge, Fin(5, 100))
       THEN Append(before,
                   Trade(t, curr.id, "YES", currentPrice,
                         IF outcomeWin THEN Num(1) ELSE Num(0),
                         NumDiv(positionSize, currentPrice), profitLoss,
                         NumMul(NumDiv(profitLoss, positionSize), Num(100))))
       ELSE before

\* a simulator whose switch sends every other strategy to the arbitrage case
SimulateTradesNoDefault(config, prevMarkets, currMarkets, equity, draws, t) ==
    LET positionSize ==
            NumMul(equity, OrDefault(config.settings.positionPercent, Fin(2, 100)))
    IN CASE config.strategy = "spike" ->
              SimulateSpikeTrades(prevMarkets, currMarkets, positionSize, config.settings, t)
         [] config.strategy = "kelly" ->
              SimulateKellyTrades(prevMarkets, currMarkets, equity, config.settings, draws, t)
         [] OTHER ->
              SimulateArbitrageTrades(currMarkets, positionSize, config.settings, t)

SimulateTrades(config, prevMarkets, currMarkets, equity, draws, t) ==
    LET positionSize ==
            NumMul(equity, OrDefault(config.settings.positionPercent, Fin(2, 100)))
    IN CASE config.strategy = "spike" ->
              SimulateSpikeTrades(prevMarkets, currMarkets, positionSize, config.settings, t)
         [] config.strategy = "arbitrage" ->
              SimulateArbitrageTrades(currMarkets, positionSize, config.settings, t)
         [] config.strategy = "kelly" ->
              SimulateKellyTrades(prevMarkets, currMarkets, equity, config.settings, draws, t)
         [] OTHER -> <<>>

RECURSIVE SumProfitLoss(_)
SumProfitLoss(trades) ==
    IF trades = <<>> THEN Num(0)
    ELSE NumAdd(SumProfitLoss(SubSeq(trades, 1, Len(trades) - 1)),
                trades[Len(trades)].profitLoss)

\* Math.floor(t / 86400000): the calendar day of an instant, the date part of
\* its ISO string
DateOf(t) == t \div DayMs

\* const trades = [], equity = config.initialCapital, ... before the loop
runBacktestStart(config, historicalData) ==
    /\ bt.pc # "running"
    /\ bt' = [pc |-> "running", config |-> config, historicalData |-> historicalData,
              i |-> 1, equity |-> config.initialCapital,
              peakEquity |-> config.initialCapital, maxDrawdown |-> Num(0),
              equityCurve |-> <<>>, trades |-> <<>>]
    /\ btTrace' = <<>>
    /\ btCall' = [op |-> "runBacktest", ret |-> Null]
    /\ UNCHANGED <<results, finished>>

\* if (currentDrawdown > maxDrawdown) maxDrawdown = currentDrawdown
NextMaxDrawdown(currentDrawdown, maxDrawdown) ==
    IF NumGt(currentDrawdown, maxDrawdown) THEN currentDrawdown ELSE maxDrawdown

\* one iteration of the day loop
runBacktestDay(draws) ==
    /\ bt.pc = "running"
    /\ bt.i < Len(bt.historicalData)
    /\ LET prevMarkets == bt.historicalData[bt.i]
           currMarkets == bt.historicalData[bt.i + 1]
           date == DateOf(now - (Len(bt.historicalData) - bt.i) * DayMs)
           dayTrades == SimulateTrades(bt.config, prevMarkets, currMarkets, bt.equity,
                                       draws, now)
           equity == NumAdd(bt.equity, SumProfitLoss(dayTrades))
           peak == IF NumGt(equity, bt.peakEquity) THEN equity ELSE bt.peakEquity
           currentDrawdown == NumDiv(NumSub(peak, equity), peak)
           maxDrawdown == NextMaxDrawdown(currentDrawdown, bt.maxDrawdown)
       IN /\ bt' = [bt EXCEPT !.i = @ + 1,
                               !.equity = equity,
                               !.peakEquity = peak,
                               !.maxDrawdown = maxDrawdown,
                               !.equityCurve = Append(@, [date |-> date, equity |-> equity]),
                               !.trades = @ \o dayTrades]
          /\ btTrace' = Append(btTrace, [equity |-> equity, peakEquity |-> peak,
                                         currentDrawdown |-> currentDrawdown,
                                         maxDrawdown |-> maxDrawdown])
    /\ UNCHANGED <<results, btCall, finished>>

RECURSIVE SumReturns(_)
SumReturns(trades) ==
    IF trades = <<>> THEN Num(0)
    ELSE NumAdd(SumReturns(SubSeq(trades, 1, Len(trades) - 1)),
                trades[Len(trades)].profitLossPercent)

RECURSIVE SumSquares(_, _)
SumSquares(trades, avg) ==
    IF trades = <<>> THEN Num(0)
    ELSE LET dev == NumSub(trades[Len(trades)].profitLossPercent, avg)
         IN NumAdd(SumSquares(SubSeq(trades, 1, Len(trades) - 1), avg), NumMul(dev, dev))

\* a maxDrawdown reported as a ratio
ReportedMaxDrawdownRatio(maxDrawdown) == maxDrawdown

\* maxDrawdown: maxDrawdown * 100
ReportedMaxDrawdown(maxDrawdown) == NumMul(maxDrawdown, Num(100))

\* the BacktestResult built after the loop.  The Sharpe ratio, avgReturn /
\* sqrt(variance) * sqrt(252), is kept as the sign of avgReturn and the square
\* 252 * avgReturn^2 / variance.
BacktestResult(t) ==
    LET trades == bt.trades
        config == bt.config
        Win(x) == NumGt(x.profitLoss, Num(0))
        Loss(x) == NumLe(x.profitLoss, Num(0))
        wins == SelectSeq(trades, Win)
        losses == SelectSeq(trades, Loss)
        totalProfit == SumProfitLoss(wins)
        totalLoss == NumAbs(SumProfitLoss(losses))
        n == Len(trades)
        avgReturn == IF n > 0 THEN NumDiv(SumReturns(trades), Num(n)) ELSE Num(0)
        variance == IF n > 1 THEN NumDiv(SumSquares(trades, avgReturn), Num(n - 1))
                    ELSE Num(0)
        sharpeRatio ==
            IF NumGt(variance, Num(0))
            THEN [k |-> "sqrt", sign |-> Sign(avgReturn),
                  square |-> NumDiv(NumMul(Num(252), NumMul(avgReturn, avgReturn)), variance)]
            ELSE Num(0)
    IN [id |-> [kind |-> "backtest", at |-> t],
        config |-> config,
        totalReturn |-> NumSub(bt.equity, config.initialCapital),
        totalReturnPercent |->
            NumMul(NumDiv(NumSub(bt.equity, config.initialCapital), config.initialCapital),
                   Num(100)),
        maxDrawdown |-> ReportedMaxDrawdown(bt.maxDrawdown),
        sharpeRatio |-> sharpeRatio,
        winRate |-> IF n > 0 THEN NumMul(NumDiv(Num(Len(wins)), Num(n)), Num(100))
                    ELSE Num(0),
        totalTrades |-> Num(n),
        profitFactor |-> IF NumGt(totalLoss, Num(0)) THEN NumDiv(totalProfit, totalLoss)
                         ELSE IF NumGt(totalProfit, Num(0)) THEN Infinity(1)
                         ELSE Num(0),
        equityCurve |-> bt.equityCurve,
        trades |-> trades,
        runAt |-> ToISOString(t)]

\* a registry that drops the result just pushed
TrimResultsNewest(pushed) ==
    IF Len(pushed) > MaxResults THEN SubSeq(pushed, 1, Len(pushed) - 1) ELSE pushed

\* if (this.results.length > 20) this.results.shift()
TrimResults(pushed) ==
    IF Len(pushed) > MaxResults THEN Tail(pushed) ELSE pushed

\* the result is pushed on the registry and returned
Completed(result) ==
    /\ results' = TrimResults(Append(results, result))
    /\ btCall' = [op |-> "runBacktest", ret |-> result]
    /\ finished' = Append(finished, result)

\* the statements after the loop: build the result, push it, return it
runBacktestFinish ==
    /\ bt.pc = "running"
    /\ bt.i >= Len(bt.historicalData)
    /\ Completed(BacktestResult(now))
    /\ bt' = [bt EXCEPT !.pc = "complete"]
    /\ UNCHANGED btTrace

\* getResults returns the array it holds.  runBacktest has no await in it, so
\* no other call runs between its steps.
getResults ==
    /\ bt.pc # "running"
    /\ btCall' = [op |-> "getResults", ret |-> results]
    /\ UNCHANGED <<results, bt, btTrace, finished>>

BtNext ==
    \/ \E c \in BtConfigs, h \in Histories(MaxDays) :
          bt.pc = "idle" /\ runBacktestStart(c, h)
    \/ \E d \in (IF bt.pc = "running" /\ bt.i < Len(bt.historicalData)
                    /\ bt.config.strategy = "kelly"
                 THEN Draws(Len(bt.historicalData[bt.i + 1]))
                 ELSE {<<>>}) : runBacktestDay(d)
    \/ runBacktestFinish

BtStep == BtNext /\ UNCHANGED <<now, riskVars, spikeVars, kellyVars, histVars, arbVars>>

\* The registry over many runs: every run of a behaviour is given the config
\* and history of its first run, and the clock may tick between runs.
MaxRuns == 22
RegistryConfigs ==
    {c \in BtConfigs : c.settings = NoSettings /\ c.strategy \in {"statistical", "arbitrage"}}
RegistryHistories ==
    { <<>>,
      << <<BtMarket(1, Fin(1, 2), Fin(1, 2))>>,
         <<BtMarket(1, Fin(1, 2), Fin(1, 2)), BtMarket(2, Fin(1, 4), Fin(1, 4))>> >> }

RegistryNext ==
    \/ \E c \in RegistryConfigs, h \in RegistryHistories :
          /\ Len(finished) < MaxRuns
          /\ finished # <<>> => (c = bt.config /\ h = bt.historicalData)
          /\ runBacktestStart(c, h)
    \/ runBacktestDay(<<>>)
    \/ runBacktestFinish
    \/ getResults

RegistryStep ==
    \/ RegistryNext /\ UNCHANGED <<now, riskVars, spikeVars, kellyVars, histVars, arbVars>>
    \/ Tick /\ bt.pc # "running"
            /\ UNCHANGED <<riskVars, spikeVars, kellyVars, histVars, arbVars, btVars>>

----------------------------------------------------------------------------
(* Specifications                                                          *)

Init ==
    /\ RiskInit
    /\ now = 0
    /\ SpikeInit
    /\ KellyInit
    /\ HistInit
    /\ ArbInit
    /\ BtInit

SpikeSpec == Init /\ [][SpikeStep]_vars

KellySpec == Init /\ [][KellyStep]_vars

ArbSpec == Init /\ [][ArbStep]_vars

BacktestSpec == Init /\ [][BtStep]_vars

BacktestRegistrySpec == Init /\ [][RegistryStep]_vars

KellyHistorySpec == Init /\ [][HistStep]_vars

ArbRoutesSpec == Init /\ [][ArbRoutesStep]_vars

----------------------------------------------------------------------------
(* The engines side by side.  They are separate objects that share nothing *)
(* but the clock, so a behaviour of EnginesSpec drives one of them, chosen *)
(* by its first call, here with prices that include 0.                     *)

DefaultLimit == 20

EdgePrices == {Num(0), Fin(1, 2)}
EdgeSettings == [spikeThreshold |-> Fin(1, 10), cooldownMs |-> 1000]
EdgeMarket(p) ==
    [id |-> "m1", question |-> "Q", outcomePrices |-> <<p, NumSub(Num(1), p)>>,
     volume |-> Num(10)]
SpikeLimits == {0, 1, DefaultLimit}

FewArbMarketLists == { <<MarketB, MarketA>>, <<MarketA, MarketC>> }
FewBtConfigs ==
    {c \in BtConfigs : c.settings = NoSettings /\ c.strategy \in {"kelly", "arbitrage"}}

SpikeEngineNext ==
    \/ detectSpike("m1", EdgeSettings)
    \/ \E p \in EdgePrices : analyzeMarkets(<<EdgeMarket(p)>>, EdgeSettings)
    \/ \E limit \in SpikeLimits : getRecentSpikes(limit)

ArbEngineNext ==
    \/ \E ms \in FewArbMarketLists : scanBinaryArbitrage(ms)
    \/ getActiveOpportunities
    \/ \E i \in 1..MinInt(2, Len(opportunities)) : markExecuted(opportunities[i].id)

BtEngineNext ==
    \/ \E c \in FewBtConfigs, h \in Histories(2) :
          bt.pc = "idle" /\ runBacktestStart(c, h)
    \/ \E d \in (IF bt.pc = "running" /\ bt.i < Len(bt.historicalData)
                    /\ bt.config.strategy = "kelly"
                 THEN Draws(Len(bt.historicalData[bt.i + 1]))
                 ELSE {<<>>}) : runBacktestDay(d)
    \/ runBacktestFinish
    \/ getResults

EnginesNext ==
    \/ /\ HistInit /\ ArbInit /\ BtInit
       /\ SpikeEngineNext
       /\ UNCHANGED spikeCallers
       /\ UNCHANGED <<now, riskVars, kellyVars, histVars, arbVars, btVars>>
    \/ /\ SpikeInit /\ ArbInit /\ BtInit /\ now = 0
       /\ HistNext
       /\ UNCHANGED <<now, riskVars, spikeVars, kellyVars, arbVars, btVars>>
    \/ /\ SpikeInit /\ HistInit /\ BtInit
       /\ ArbEngineNext
       /\ UNCHANGED <<now, riskVars, spikeVars, kellyVars, histVars, btVars>>
    \/ /\ SpikeInit /\ HistInit /\ ArbInit
       /\ BtEngineNext
       /\ UNCHANGED <<now, riskVars, spikeVars, kellyVars, histVars, arbVars>>
    \/ /\ HistInit
       /\ Tick
       /\ UNCHANGED <<riskVars, spikeVars, kellyVars, histVars, arbVars, btVars>>

EnginesSpec == Init /\ [][EnginesNext]_vars

RiskStep ==
    /\ RiskNext
    /\ UNCHANGED <<riskCallers, riskStart>>
    /\ UNCHANGED <<now, spikeVars, kellyVars, histVars, arbVars, btVars>>

----------------------------------------------------------------------------
(* A backtest next to the live engines.  The live engines are given a few  *)
(* calls each; runBacktest and the simulators it calls name no other       *)
(* engine, and the live state after each of its steps is written out.      *)

\* the state of the live engines
LiveState ==
    [priceHistory |-> priceHistory, cooldowns |-> cooldowns,
     detectedSpikes |-> detectedSpikes, opportunities |-> opportunities,
     tradeHistory |-> tradeHistory, limits |-> limits,
     currentEquity |-> currentEquity, peakEquity |-> peakEquity,
     dailyPnL |-> dailyPnL, tradingHalted |-> tradingHalted]

SetLiveState(live) ==
    /\ priceHistory' = live.priceHistory
    /\ cooldowns' = live.cooldowns
    /\ detectedSpikes' = live.detectedSpikes
    /\ opportunities' = live.opportunities
    /\ tradeHistory' = live.tradeHistory
    /\ limits' = live.limits
    /\ currentEquity' = live.currentEquity
    /\ peakEquity' = live.peakEquity
    /\ dailyPnL' = live.dailyPnL
    /\ tradingHalted' = live.tradingHalted

\* a simulator that books its trades with the risk manager and the Kelly
\* trade history
LiveAfterBacktestBooked(live, trades) ==
    [live EXCEPT !.dailyPnL = NumAdd(@, SumProfitLoss(trades)),
                 !.tradeHistory = @ \o [k \in 1..Len(trades) |->
                                          [profitLoss |-> trades[k].profitLoss,
                                           capital |-> HistCapital]]]

\* the live state after a step of runBacktest that has simulated trades so
\* far: the method works on its arguments, its locals and this.results
LiveAfterBacktest(live, trades) == live

BtLiveNext ==
    /\ \/ \E c \in FewBtConfigs, h \in RegistryHistories :
             bt.pc = "idle" /\ runBacktestStart(c, h)
       \/ \E d \in (IF bt.pc = "running" /\ bt.i < Len(bt.historicalData)
                       /\ bt.config.strategy = "kelly"
                    THEN Draws(Len(bt.historicalData[bt.i + 1]))
                    ELSE {<<>>}) : runBacktestDay(d)
       \/ runBacktestFinish
    /\ SetLiveState(LiveAfterBacktest(LiveState, bt'.trades))
    /\ UNCHANGED <<now, riskCall, tripped, pnlSinceReset, riskCallers, riskStart,
                   spikeCall, recorded, fired, spikeCallers,
                   kellyVars, histCall, added, arbCall, prevOpportunities, scans>>

\* the price feed of the one live market: 0.5 twice, then 0.6
LivePrice ==
    IF CountRecorded(recorded, DOMAIN recorded) < 2 THEN Fin(1, 2) ELSE Fin(3, 5)

\* calls on the live engines; none arrives inside a running runBacktest,
\* which has no await
LiveNext ==
    /\ bt.pc # "running"
    /\ \/ /\ \/ updateEquity(Num(1000))
             \/ recordTrade([profitLoss |-> Num(-500)])
          /\ UNCHANGED <<riskCallers, riskStart>>
          /\ UNCHANGED <<now, spikeVars, kellyVars, histVars, arbVars, btVars>>
       \/ /\ analyzeMarkets(<<EdgeMarket(LivePrice)>>, EdgeSettings)
          /\ UNCHANGED spikeCallers
          /\ UNCHANGED <<now, riskVars, kellyVars, histVars, arbVars, btVars>>
       \/ /\ scans < 1
          /\ scanBinaryArbitrage(<<MarketB, MarketA>>)
          /\ UNCHANGED <<now, riskVars, spikeVars, kellyVars, histVars, btVars>>
       \/ /\ Len(added) < 1
          /\ addTrade(Num(20), HistCapital)
          /\ UNCHANGED <<now, riskVars, spikeVars, kellyVars, arbVars, btVars>>

LiveBacktestNext == BtLiveNext \/ LiveNext

LiveBacktestSpec == Init /\ [][LiveBacktestNext]_vars

RiskSpec == Init /\ [][RiskStep]_vars

RiskCallersSpec == Init /\ [][RiskCallersStep]_vars

----------------------------------------------------------------------------
(* Concurrent callers of the SpikeDetector, all on one market and at one   *)
(* instant.  The arrays of price points are kept by identity: get() hands  *)
(* out the array the map holds, and push() and shift() change that array.  *)

CallersMarket == EdgeMarket(Fin(3, 5))
SetupPrices == {Fin(1, 2), Fin(3, 5)}
MaxSetup == 3

\* the calls in flight: the price feed's recordPrice, a detectSpike, and the
\* scan route's analyzeMarkets of the one market
SpikeCallerCalls ==
    { [op |-> "recordPrice", price |-> Fin(3, 5)],
      [op |-> "detectSpike", price |-> Num(0)],
      [op |-> "analyzeMarkets", price |-> CallersMarket.outcomePrices[1]] }

\* a detector whose methods hand control back before every statement
SpikeYieldsEverywhere(op, pc) == TRUE

\* does control return to the event loop before the statement at pc?
\* recordPrice, detectSpike and analyzeMarkets are synchronous: no await
SpikeYields(op, pc) == FALSE

SpikeBusy(d) ==
    /\ spikeCallers.call[d].pc \notin {"idle", "done"}
    /\ ~SpikeYields(spikeCallers.call[d].op, spikeCallers.call[d].pc)

SpikeCanStep(c) == \A d \in SpikeCallerIds \ {c} : ~SpikeBusy(d)

\* the history before any caller: the price feed records a few points
spikeSetup ==
    /\ spikeCallers.start = Null
    /\ Len(MapGet(recorded, CallersMarket.id, <<>>)) < MaxSetup
    /\ \E p \in SetupPrices : recordPrice(CallersMarket.id, p, Undefined)
    /\ UNCHANGED spikeCallers

\* caller c calls a method; at the first call the state is kept, and array 0
\* is the array the map holds
spikeInvoke(c, call) ==
    /\ spikeCallers.call[c].pc = "idle"
    /\ SpikeCanStep(c)
    /\ spikeCallers' =
          [IF spikeCallers.start = Null
           THEN [spikeCallers EXCEPT
                   !.start = SpikeState,
                   !.arrays[0] = MapGet(priceHistory, CallersMarket.id, <<>>),
                   !.mapRef = IF CallersMarket.id \in DOMAIN priceHistory THEN 0 ELSE -1]
           ELSE spikeCallers
           EXCEPT !.call[c] =
              [IdleSpikeCaller EXCEPT
                 !.op = call.op, !.price = call.price,
                 !.pc = IF call.op = "detectSpike" THEN "history" ELSE "get"]]
    /\ UNCHANGED <<priceHistory, cooldowns, detectedSpikes, spikeCall, recorded, fired>>

\* the point recordPrice pushes: analyzeMarkets passes market.volume, the
\* price feed passes no volume
CallerPoint(me, t) ==
    [marketId |-> CallersMarket.id, price |-> me.price, timestamp |-> t,
     volume |-> IF me.op = "analyzeMarkets" THEN CallersMarket.volume ELSE Undefined]

\* lines 37-71 of detectSpike on the array the caller holds: the event, or
\* Null for a move under the threshold
SpikeOfHistory(history, t) ==
    DetectSpike([priceHistory |-> MapSet([m \in {} |-> <<>>], CallersMarket.id, history),
                 cooldowns |-> [m \in {} |-> 0],
                 detectedSpikes |-> <<>>, recorded |-> [m \in {} |-> <<>>],
                 fired |-> <<>>],
                CallersMarket.id, EdgeSettings, t).ret

\* detectSpike returned null: analyzeMarkets then returns no event
NoEvent(me) ==
    [me EXCEPT !.pc = "done", !.ret = IF me.op = "analyzeMarkets" THEN <<>> ELSE Null]

\* the caller's locals, the arrays and the map entry after a statement; the
\* map's view of the market is the array it holds
SpikeCallerSets(c, me, arrays, mapRef) ==
    /\ spikeCallers' = [spikeCallers EXCEPT !.call[c] = me, !.arrays = arrays,
                                            !.mapRef = mapRef]
    /\ priceHistory' = IF mapRef = -1 THEN priceHistory
                       ELSE MapSet(priceHistory, CallersMarket.id, arrays[mapRef])

\* the statement at caller c's position
spikeStatement(c) ==
    LET me == spikeCallers.call[c]
        arrays == spikeCallers.arrays
        mapRef == spikeCallers.mapRef
    IN
    /\ me.pc \notin {"idle", "done"}
    /\ SpikeCanStep(c)
    /\ UNCHANGED spikeCall
    /\ CASE me.pc = "get" ->
            \* const history = this.priceHistory.get(marketId) || []
            /\ IF mapRef = -1
               THEN SpikeCallerSets(c, [me EXCEPT !.pc = "push", !.ref = c],
                                    [arrays EXCEPT ![c] = <<>>], mapRef)
               ELSE SpikeCallerSets(c, [me EXCEPT !.pc = "push", !.ref = mapRef],
                                    arrays, mapRef)
            /\ UNCHANGED <<cooldowns, detectedSpikes, recorded, fired>>
         [] me.pc = "push" ->
            \* history.push({ marketId, price, timestamp: Date.now(), volume })
            /\ SpikeCallerSets(c, [me EXCEPT !.pc = "trim"],
                               [arrays EXCEPT ![me.ref] = Append(@, CallerPoint(me, now))],
                               mapRef)
            /\ recorded' = MapSet(recorded, CallersMarket.id,
                                  Append(MapGet(recorded, CallersMarket.id, <<>>),
                                         CallerPoint(me, now)))
            /\ UNCHANGED <<cooldowns, detectedSpikes, fired>>
         [] me.pc = "trim" ->
            \* if (history.length > this.defaultWindowSize) history.shift()
            /\ SpikeCallerSets(c, [me EXCEPT !.pc = "set"],
                               [arrays EXCEPT ![me.ref] = TrimHistory(@)], mapRef)
            /\ UNCHANGED <<cooldowns, detectedSpikes, recorded, fired>>
         [] me.pc = "set" ->
            \* this.priceHistory.set(marketId, history); analyzeMarkets goes on
            \* to detectSpike
            /\ SpikeCallerSets(c, [me EXCEPT !.pc = IF me.op = "analyzeMarkets"
                                                   THEN "history" ELSE "done"],
                               arrays, me.ref)
            /\ UNCHANGED <<cooldowns, detectedSpikes, recorded, fired>>
         [] me.pc = "history" ->
            \* const history = this.priceHistory.get(marketId);
            \* if (!history || history.length < 3) return null
            /\ IF mapRef = -1 \/ TooFewPoints(Len(arrays[mapRef]))
               THEN SpikeCallerSets(c, NoEvent(me), arrays, mapRef)
               ELSE SpikeCallerSets(c, [me EXCEPT !.pc = "cooldown", !.ref = mapRef],
                                    arrays, mapRef)
            /\ UNCHANGED <<cooldowns, detectedSpikes, recorded, fired>>
         [] me.pc = "cooldown" ->
            \* if (Date.now() < cooldownEnd) return null
            /\ IF InCooldown(SpikeState, CallersMarket.id, now)
               THEN SpikeCallerSets(c, NoEvent(me), arrays, mapRef)
               ELSE SpikeCallerSets(c, [me EXCEPT !.pc = "compute"], arrays, mapRef)
            /\ UNCHANGED <<cooldowns, detectedSpikes, recorded, fired>>
         [] me.pc = "compute" ->
            \* the price move; if (priceChangePercent < threshold) return null;
            \* const spike = { ... }
            /\ IF SpikeOfHistory(arrays[me.ref], now) = Null
               THEN SpikeCallerSets(c, NoEvent(me), arrays, mapRef)
               ELSE SpikeCallerSets(c, [me EXCEPT !.pc = "log",
                                                  !.spike = SpikeOfHistory(arrays[me.ref], now)],
                                    arrays, mapRef)
            /\ UNCHANGED <<cooldowns, detectedSpikes, recorded, fired>>
         [] me.pc = "log" ->
            \* this.detectedSpikes.push(spike); past 100 events, shift()
            /\ detectedSpikes' =
                  IF Len(detectedSpikes) + 1 > MaxDetectedSpikes
                  THEN Tail(Append(detectedSpikes, me.spike))
                  ELSE Append(detectedSpikes, me.spike)
            /\ SpikeCallerSets(c, [me EXCEPT !.pc = "setCooldown",
                                             !.at = Len(detectedSpikes')],
                               arrays, mapRef)
            /\ UNCHANGED <<cooldowns, recorded, fired>>
         [] me.pc = "setCooldown" ->
            \* this.cooldowns.set(marketId, Date.now() + cooldownMs); return spike
            /\ cooldowns' = MapSet(cooldowns, CallersMarket.id,
                                   CooldownEnd(EdgeSettings, now))
            /\ fired' = Append(fired, [marketId |-> CallersMarket.id, at |-> now,
                                       cooldownMs |-> EdgeSettings.cooldownMs,
                                       event |-> me.spike])
            /\ SpikeCallerSets(c, IF me.op = "analyzeMarkets"
                                  THEN [me EXCEPT !.pc = "name"]
                                  ELSE [me EXCEPT !.pc = "done", !.ret = me.spike],
                               arrays, mapRef)
            /\ UNCHANGED <<detectedSpikes, recorded>>
         [] me.pc = "name" ->
            \* spike.marketQuestion = market.question; spikes.push(spike): the
            \* event is the object on the log
            /\ detectedSpikes' =
                  [detectedSpikes EXCEPT ![me.at].marketQuestion = CallersMarket.question]
            /\ SpikeCallerSets(c, [me EXCEPT
                                     !.pc = "done",
                                     !.ret = <<[me.spike EXCEPT !.marketQuestion =
                                                   CallersMarket.question]>>],
                               arrays, mapRef)
            /\ UNCHANGED <<cooldowns, recorded, fired>>

SpikeCallersNext ==
    \/ spikeSetup
    \/ \E c \in SpikeCallerIds, call \in SpikeCallerCalls : spikeInvoke(c, call)
    \/ \E c \in SpikeCallerIds : spikeStatement(c)

SpikeCallersStep ==
    SpikeCallersNext /\ UNCHANGED <<now, riskVars, kellyVars, histVars, arbVars, btVars>>

\* The sequential meaning of a call: the state after it and what it returns.
SpikeApply(st, call, t) ==
    CASE call.op = "recordPrice" ->
             [st |-> RecordPrice(st, CallersMarket.id, call.price, Undefined, t),
              ret |-> Null]
      [] call.op = "detectSpike" -> DetectSpike(st, CallersMarket.id, EdgeSettings, t)
      [] call.op = "analyzeMarkets" ->
             AnalyzeMarkets(st, <<CallersMarket>>, EdgeSettings, t)

SpikeCallersSpec == Init /\ [][SpikeCallersStep]_vars

----------------------------------------------------------------------------
(* Two markets fed side by side: each gets the prices 0.5, 0.5, 0.6, 0.6   *)
(* from the price feed, and detectSpike is called for either at any time.  *)

MaxFeed == 4

\* the next price of a market's feed
FeedPrice(marketId) ==
    IF Len(MapGet(recorded, marketId, <<>>)) < 2 THEN Fin(1, 2) ELSE Fin(3, 5)

\* the price feed calls recordPrice(market.id, market.outcomePrices[0])
feedPrice(marketId) ==
    /\ Len(MapGet(recorded, marketId, <<>>)) < MaxFeed
    /\ SetSpikeState(RecordPrice(SpikeState, marketId, FeedPrice(marketId), Undefined, now))
    /\ spikeCall' = [op |-> "recordPrice", marketId |-> marketId, ret |-> Null]

SpikeMarketsNext ==
    \/ \E m \in SpikeMarketIds : feedPrice(m)
    \/ \E m \in SpikeMarketIds : detectSpike(m, EdgeSettings)

SpikeMarketsStep ==
    \/ /\ SpikeMarketsNext
       /\ UNCHANGED spikeCallers
       /\ UNCHANGED <<now, riskVars, kellyVars, histVars, arbVars, btVars>>
    \/ Tick /\ UNCHANGED <<riskVars, spikeVars, kellyVars, histVars, arbVars, btVars>>

SpikeMarketsSpec == Init /\ [][SpikeMarketsStep]_vars

----------------------------------------------------------------------------
(* Claims about the SpikeDetector, checked under SpikeSpec                 *)

\* C3: if detectSpike returns an event for a market at time t with
\* settings.cooldownMs = c, no detectSpike call for that market at a time t'
\* with t <= t' < t + c returns an event (time advancing monotonically).
C3_Cooldown ==
    \A i, j \in 1..Len(fired) :
        (i < j /\ fired[i].marketId = fired[j].marketId) =>
            ~(fired[i].at <= fired[j].at
              /\ fired[j].at < fired[i].at + fired[i].cooldownMs)

\* C3 witness: a detectSpike call returned none at a later instant inside the
\* cooldown of an earlier event of the same market, on a history of 3 points.
C3_Witness ==
    /\ spikeCall.op = "detectSpike"
    /\ spikeCall.ret = Null
    /\ Len(MapGet(priceHistory, spikeCall.marketId, <<>>)) >= 3
    /\ \E i \in 1..Len(fired) :
          /\ fired[i].marketId = spikeCall.marketId
          /\ fired[i].at < now
          /\ now < fired[i].at + fired[i].cooldownMs

\* C3 witness of the end of the window: a market fired a second time.
C3_WitnessRefire ==
    \E i, j \in 1..Len(fired) :
        i < j /\ fired[i].marketId = fired[j].marketId

\* C4: each market's retained history has length <= the window size; after
\* N > window size calls to recordPrice for a market it has exactly the window
\* size and holds the most recently recorded points in chronological order.
C4_Window ==
    /\ DOMAIN priceHistory = DOMAIN recorded
    /\ \A m \in DOMAIN recorded :
          LET all == recorded[m]
              h == priceHistory[m]
          IN /\ Len(h) <= defaultWindowSize
             /\ Len(all) > defaultWindowSize => Len(h) = defaultWindowSize
             /\ h = SubSeq(all, Len(all) - Len(h) + 1, Len(all))
             /\ \A i, j \in 1..Len(h) : i < j => h[i].timestamp <= h[j].timestamp

\* C4 witness: a market was recorded more often than the window holds and its
\* oldest point is gone.
C4_Witness ==
    \E m \in DOMAIN recorded :
        /\ Len(recorded[m]) > defaultWindowSize
        /\ Len(priceHistory[m]) = defaultWindowSize
        /\ priceHistory[m][1] = recorded[m][2]

----------------------------------------------------------------------------
(* Claims about the KellyCriterion, checked under KellySpec                *)

\* C5: calculateKelly returns a fraction f with 0 <= f <= maxPositionPercent;
\* whenever estimatedProbability - currentPrice <= 0 it returns fraction 0,
\* positionSize 0, confidence 0 and recommendation "avoid".
C5_KellyClamped ==
    kellyCall.op = "calculateKelly" =>
        LET in == kellyCall.input
            r == kellyCall.ret
        IN /\ NumLe(Num(0), r.fraction)
           /\ NumLe(r.fraction, in.maxPositionPercent)
           /\ NumLe(in.estimatedProbability, in.currentPrice) =>
                /\ r.fraction = Num(0)
                /\ r.positionSize = Num(0)
                /\ r.confidence = Num(0)
                /\ r.recommendation = "avoid"

\* C5 witness: a positive edge whose scaled Kelly fraction exceeds the cap.
C5_Witness ==
    /\ kellyCall.op = "calculateKelly"
    /\ kellyCall.input.currentPrice = Fin(1, 100)
    /\ kellyCall.input.estimatedProbability = Fin(99, 100)
    /\ kellyCall.input.maxPositionPercent = Fin(1, 100)
    /\ kellyCall.ret.fraction = Fin(1, 100)

\* C5 witness of the zero edge: price 0.50, probability 0.50.
C5_WitnessZeroEdge ==
    /\ kellyCall.op = "calculateKelly"
    /\ kellyCall.input.currentPrice = Fin(1, 2)
    /\ kellyCall.input.estimatedProbability = Fin(1, 2)
    /\ kellyCall.ret.recommendation = "avoid"

\* C10: for every input with positive edge, fraction = min((probability -
\* price) / price * kellyFraction, maxPositionPercent), positionSize =
\* bankroll * fraction rounded to cents, and the recommendation is strong_buy
\* for fraction >= 0.04, buy for >= 0.02, hold for > 0, avoid otherwise; price
\* 0.40, probability 0.60, bankroll 10000, kellyFraction 0.5, cap 0.05 give
\* fraction 0.05, positionSize 500.00, strong_buy.
C10_KellyFormula ==
    (kellyCall.op = "calculateKelly"
       /\ NumGt(kellyCall.input.estimatedProbability, kellyCall.input.currentPrice)) =>
        LET in == kellyCall.input
            r == kellyCall.ret
            f == r.fraction
            scaledEdge == NumMul(NumSub(in.estimatedProbability, in.currentPrice),
                                 in.kellyFraction)
            cents == NumMul(r.positionSize, Num(100))
            exact == NumMul(NumMul(in.bankroll, f), Num(100))
        IN \* f is the smaller of the scaled Kelly fraction and the cap
           /\ NumLe(NumMul(f, in.currentPrice), scaledEdge)
           /\ NumLe(f, in.maxPositionPercent)
           /\ (NumMul(f, in.currentPrice) = scaledEdge \/ f = in.maxPositionPercent)
           \* positionSize is a whole number of cents, the nearest to bankroll * f
           \* (a half cent rounds up)
           /\ cents.d = 1
           /\ NumLt(NumSub(exact, Fin(1, 2)), cents)
           /\ NumLe(cents, NumAdd(exact, Fin(1, 2)))
           /\ r.recommendation =
                (IF NumGe(f, Fin(4, 100)) THEN "strong_buy"
                 ELSE IF NumGe(f, Fin(2, 100)) THEN "buy"
                 ELSE IF NumGt(f, Num(0)) THEN "hold"
                 ELSE "avoid")
           /\ (in = [currentPrice |-> Fin(2, 5), estimatedProbability |-> Fin(3, 5),
                     bankroll |-> Num(10000), kellyFraction |-> Fin(1, 2),
                     maxPositionPercent |-> Fin(1, 20)]) =>
                /\ f = Fin(5, 100)
                /\ r.positionSize = Num(500)
                /\ r.recommendation = "strong_buy"

\* C10 witness: the example input.
C10_Witness ==
    /\ kellyCall.op = "calculateKelly"
    /\ kellyCall.input = [currentPrice |-> Fin(2, 5), estimatedProbability |-> Fin(3, 5),
                          bankroll |-> Num(10000), kellyFraction |-> Fin(1, 2),
                          maxPositionPercent |-> Fin(1, 20)]
    /\ kellyCall.ret.positionSize = Num(500)
    /\ kellyCall.ret.recommendation = "strong_buy"

\* C10 witness of an uncapped fraction on a threshold, rounded to cents.
C10_WitnessUncapped ==
    /\ kellyCall.op = "calculateKelly"
    /\ kellyCall.ret.fraction = Fin(1, 25)
    /\ kellyCall.input.maxPositionPercent = Fin(1, 4)
    /\ kellyCall.input.bankroll = Num(333)
    /\ kellyCall.ret.positionSize = Fin(1332, 100)
    /\ kellyCall.ret.recommendation = "strong_buy"

----------------------------------------------------------------------------
(* Claims about the ArbitrageScanner, checked under ArbSpec                *)

\* C7: scanBinaryArbitrage returns an opportunity for a market exactly when
\* the market has two outcomes and price(yes) + price(no) + 0.02 < 1; for each
\* such market totalCost = netCost and profit = 1 - netCost.  Prices [0.45,
\* 0.50] are flagged with profit 0.03; prices [0.50, 0.52] are not flagged.
C7_BinaryArbitrage ==
    arbCall.op = "scanBinaryArbitrage" =>
        LET markets == arbCall.markets
            ret == arbCall.ret
            Mispriced(mk) ==
                /\ Len(mk.outcomes) = 2
                /\ NumLt(NumAdd(NumAdd(mk.outcomePrices[1], mk.outcomePrices[2]),
                                Fin(2, 100)),
                         Num(1))
            flagged == {i \in 1..Len(markets) : Mispriced(markets[i])}
        IN /\ Len(ret) = Cardinality(flagged)
           /\ \A i \in flagged : \E j \in 1..Len(ret) : ret[j].market1.id = markets[i].id
           /\ \A j \in 1..Len(ret) :
                /\ \E i \in flagged :
                      /\ ret[j].market1.id = markets[i].id
                      /\ ret[j].market1.price = markets[i].outcomePrices[1]
                      /\ ret[j].market2.price = markets[i].outcomePrices[2]
                /\ ret[j].totalCost =
                      NumAdd(NumAdd(ret[j].market1.price, ret[j].market2.price), Fin(2, 100))
                /\ ret[j].profit = NumSub(Num(1), ret[j].totalCost)
                /\ ret[j].market1.price = Fin(45, 100) /\ ret[j].market2.price = Fin(1, 2)
                      => ret[j].profit = Fin(3, 100)
                /\ ~(ret[j].market1.price = Fin(1, 2) /\ ret[j].market2.price = Fin(52, 100))
           /\ \A i \in 1..Len(markets) :
                (Len(markets[i].outcomes) = 2
                   /\ markets[i].outcomePrices = <<Fin(45, 100), Fin(1, 2)>>)
                  => i \in flagged

\* C7 witness: a scan of a three-outcome market and the [0.45, 0.50] market
\* returned one opportunity, with profit 0.03.
C7_Witness ==
    /\ arbCall.op = "scanBinaryArbitrage"
    /\ arbCall.markets = <<MarketA, MarketC>>
    /\ Len(arbCall.ret) = 1
    /\ arbCall.ret[1].profit = Fin(3, 100)

\* C7 witness: the [0.50, 0.52] market is scanned and not flagged.
C7_WitnessNotFlagged ==
    /\ arbCall.op = "scanBinaryArbitrage"
    /\ arbCall.markets = <<MarketB>>
    /\ arbCall.ret = <<>>

\* C8: after every scanBinaryArbitrage call the registry is the newly
\* detected opportunities followed by the previously registered ones detected
\* less than 5 minutes before the scan, truncated to the first 50; the
\* registry never holds more than 50, and right after a scan none detected 5
\* minutes or more earlier.
C8_Registry ==
    /\ Len(opportunities) <= 50
    /\ arbCall.op = "scanBinaryArbitrage" =>
          LET Recent(o) == arbCall.at - o.detectedAt.iso < 300000
              merged == arbCall.ret \o SelectSeq(prevOpportunities, Recent)
          IN /\ Len(opportunities) = MinInt(Len(merged), 50)
             /\ \A i \in 1..Len(opportunities) :
                   /\ opportunities[i] = merged[i]
                   /\ arbCall.at - opportunities[i].detectedAt.iso < 300000

\* C8 witness: a scan that dropped an expired opportunity, kept unexpired
\* ones and truncated the merged list to 50.
C8_Witness ==
    /\ arbCall.op = "scanBinaryArbitrage"
    /\ Len(arbCall.ret) > 0
    /\ Len(opportunities) = 50
    /\ Len(arbCall.ret) + Len(prevOpportunities) > 50
    /\ \E i \in 1..Len(prevOpportunities) :
          arbCall.at - prevOpportunities[i].detectedAt.iso >= 300000
    /\ opportunities[50] \notin {arbCall.ret[j] : j \in 1..Len(arbCall.ret)}

----------------------------------------------------------------------------
(* Claims about the RiskManager, checked under RiskSpec                    *)

\* C1: once a recordTrade call has made |dailyPnL| / currentEquity reach
\* maxDailyLoss, isTradingAllowed() returns false after every later
\* recordTrade, updateEquity, setLimits, calculateMetrics and validatePosition
\* call, until resetDailyPnL() is called.
C1_HaltLatch ==
    tripped =>
        /\ ~IsTradingAllowed
        /\ (riskCall.op = "isTradingAllowed" => riskCall.ret = FALSE)

\* C1 witness: halted by a loss, a later profitable trade has brought the
\* ratio back under the limit, and trading is still not allowed.
C1_Witness ==
    /\ tripped
    /\ riskCall.op = "recordTrade"
    /\ ~DailyLossReached(dailyPnL)
    /\ ~IsTradingAllowed

\* C2: while trading is halted, validatePosition returns allowed = false with
\* a reason and no adjustedSize, for every positionSize, bankroll and
\* existing-position list.
C2_HaltedFailsClosed ==
    (riskCall.op = "validatePosition" /\ tradingHalted) =>
        /\ riskCall.ret.allowed = FALSE
        /\ riskCall.ret.reason # ""
        /\ riskCall.ret.adjustedSize = Undefined

\* C2 witness: a halted validatePosition of a position that would pass every
\* limit, and one with a zero bankroll.
C2_Witness ==
    /\ riskCall.op = "validatePosition"
    /\ tradingHalted
    /\ riskCall.args.positionSize = Num(300)
    /\ riskCall.args.bankroll = Num(10000)
    /\ riskCall.args.positions = <<>>
    /\ riskCall.ret.allowed = FALSE

\* C6: when trading is not halted and (currentExposure + positionSize) /
\* bankroll > maxTotalExposure, validatePosition rejects if maxTotalExposure *
\* bankroll - currentExposure <= 0 and otherwise allows with adjustedSize equal
\* to that headroom, so that currentExposure + adjustedSize is the limit; limit
\* 0.25, bankroll 10000, existing 2000, request 1000 gives adjustedSize 500.
C6_ExposureAdjustment ==
    (riskCall.op = "validatePosition" /\ ~tradingHalted) =>
        LET a == riskCall.args
            r == riskCall.ret
            held == Exposure(a.positions)
            cap == NumMul(limits.maxTotalExposure, a.bankroll)
            headroom == NumSub(cap, held)
        IN /\ NumGt(NumDiv(NumAdd(held, a.positionSize), a.bankroll),
                    limits.maxTotalExposure) =>
                IF NumLe(headroom, Num(0))
                THEN r.allowed = FALSE /\ r.adjustedSize = Undefined
                ELSE /\ r.allowed = TRUE
                     /\ r.adjustedSize = headroom
                     /\ NumAdd(held, r.adjustedSize) = cap
           /\ ( /\ limits.maxTotalExposure = Fin(1, 4)
                /\ a.bankroll = Num(10000)
                /\ held = Num(2000)
                /\ a.positionSize = Num(1000) ) =>
                (r.allowed = TRUE /\ r.adjustedSize = Num(500))

\* C6 witness: the adjusted case of the example.
C6_Witness ==
    /\ riskCall.op = "validatePosition"
    /\ ~tradingHalted
    /\ limits.maxTotalExposure = Fin(1, 4)
    /\ riskCall.args.bankroll = Num(10000)
    /\ Exposure(riskCall.args.positions) = Num(2000)
    /\ riskCall.args.positionSize = Num(1000)
    /\ riskCall.ret.adjustedSize = Num(500)

\* C6 witness of the rejecting case: no headroom is left.
C6_WitnessReject ==
    /\ riskCall.op = "validatePosition"
    /\ ~tradingHalted
    /\ riskCall.args.bankroll = Num(10000)
    /\ Exposure(riskCall.args.positions) = Num(2500)
    /\ riskCall.ret.allowed = FALSE

----------------------------------------------------------------------------
(* BacktestingEngine claims, checked under BacktestSpec                    *)

\* the result returned by the invocation that has completed
LastResult == results[Len(results)]

\* the running maximum of equity after day step k, starting from the initial
\* capital, recomputed from the equity curve
RECURSIVE PeakAfter(_, _, _)
PeakAfter(curve, initialCapital, k) ==
    IF k = 0 THEN initialCapital
    ELSE MathMax(PeakAfter(curve, initialCapital, k - 1), curve[k].equity)

DrawdownAfter(curve, initialCapital, k) ==
    NumDiv(NumSub(PeakAfter(curve, initialCapital, k), curve[k].equity),
           PeakAfter(curve, initialCapital, k))

\* the largest (peak - equity) / peak over day steps 1..k, 0 over none
RECURSIVE LargestDrawdown(_, _, _)
LargestDrawdown(curve, initialCapital, k) ==
    IF k = 0 THEN Num(0)
    ELSE MathMax(LargestDrawdown(curve, initialCapital, k - 1),
                 DrawdownAfter(curve, initialCapital, k))

CurveLengthOk ==
    bt.pc = "complete" =>
        LET D == Len(bt.historicalData)
        IN Len(LastResult.equityCurve) = IF D <= 1 THEN 0 ELSE D - 1

RunningMaxDrawdownMonotone ==
    /\ \A k \in 1..Len(btTrace) : NumGe(btTrace[k].maxDrawdown, Num(0))
    /\ \A k \in 1..(Len(btTrace) - 1) :
           NumLe(btTrace[k].maxDrawdown, btTrace[k + 1].maxDrawdown)
    /\ bt.pc \in {"running", "complete"} =>
           /\ Len(btTrace) = Len(bt.equityCurve)
           /\ \A k \in 1..Len(btTrace) :
                  btTrace[k].maxDrawdown =
                      LargestDrawdown(bt.equityCurve, bt.config.initialCapital, k)

\* C9 as stated: the curve has D - 1 points (0 when D <= 1), the running
\* maxDrawdown never decreases from one day to the next, and the reported
\* maxDrawdown equals the largest (peak - equity) / peak over all day steps.
\* The code reports maxDrawdown * 100, so this fails after any losing day.
C9_ReportedIsRatio ==
    /\ CurveLengthOk
    /\ RunningMaxDrawdownMonotone
    /\ bt.pc = "complete" =>
           LastResult.maxDrawdown =
               LargestDrawdown(LastResult.equityCurve, bt.config.initialCapital,
                               Len(LastResult.equityCurve))

\* C9 amended: the curve has D - 1 points (0 when D <= 1), the running
\* maxDrawdown never decreases from one day to the next and equals the largest
\* (peak - equity) / peak observed so far, and the reported maxDrawdown is 100
\* times the largest (peak - equity) / peak over all day steps (a percentage).
C9_Backtest ==
    /\ CurveLengthOk
    /\ RunningMaxDrawdownMonotone
    /\ bt.pc = "complete" =>
           LastResult.maxDrawdown =
               NumMul(Num(100),
                      LargestDrawdown(LastResult.equityCurve, bt.config.initialCapital,
                                      Len(LastResult.equityCurve)))

\* a completed run over three days with a losing day followed by a recovery:
\* the running maximum is held above the current drawdown of the last day
C9_Witness ==
    /\ bt.pc = "complete"
    /\ Len(bt.historicalData) = 3
    /\ Len(LastResult.equityCurve) = 2
    /\ NumGt(btTrace[1].currentDrawdown, Num(0))
    /\ NumLt(btTrace[2].currentDrawdown, btTrace[2].maxDrawdown)
    /\ NumGt(LastResult.maxDrawdown, Num(1))

\* a completed run over at most one day: no day step, an empty curve
C9_WitnessNoDays ==
    /\ bt.pc = "complete"
    /\ Len(bt.historicalData) <= 1
    /\ LastResult.equityCurve = <<>>
    /\ LastResult.maxDrawdown = Num(0)

----------------------------------------------------------------------------
(* More RiskManager claims, checked under RiskSpec                         *)

\* C13: dailyPnL is the sum of trade.profitLoss over the recordTrade calls
\* since the last resetDailyPnL (or since construction); resetDailyPnL leaves
\* dailyPnL at 0 and trading allowed; only recordTrade and resetDailyPnL
\* change dailyPnL or the halt flag.
C13_DailyPnL ==
    /\ [](dailyPnL = pnlSinceReset)
    /\ [](riskCall.op = "resetDailyPnL" =>
              dailyPnL = Num(0) /\ IsTradingAllowed)
    /\ [][(dailyPnL' # dailyPnL \/ tradingHalted' # tradingHalted) =>
              riskCall'.op \in {"recordTrade", "resetDailyPnL"}]_vars

\* C13 witness: losses recorded since the last reset that add up to 1000
C13_Witness ==
    /\ riskCall.op = "recordTrade"
    /\ dailyPnL = Num(-1000)
    /\ pnlSinceReset = Num(-1000)
    /\ ~tradingHalted

\* C13 witness: a reset after a halting loss
C13_WitnessReset ==
    /\ riskCall.op = "resetDailyPnL"
    /\ currentEquity = Num(1000)
    /\ dailyPnL = Num(0)

\* C14: the peak never decreases, the peak is at least the current equity in
\* every state, and the current drawdown calculateMetrics reports is never
\* negative and is 0 when the peak is 0.
C14_HighWaterMark ==
    /\ [](NumGe(peakEquity, currentEquity))
    /\ [](NumGe(CurrentDrawdown, Num(0)))
    /\ [](peakEquity = Num(0) => CurrentDrawdown = Num(0))
    /\ [](riskCall.op = "calculateMetrics" =>
              /\ NumGe(riskCall.ret.currentDrawdown, Num(0))
              /\ riskCall.ret.currentDrawdown = NumMul(CurrentDrawdown, Num(100)))
    /\ [][NumLe(peakEquity, peakEquity')]_vars

\* C14 witness: metrics computed while the equity is below an earlier peak
C14_Witness ==
    /\ riskCall.op = "calculateMetrics"
    /\ peakEquity = Num(10000)
    /\ currentEquity = Num(1000)
    /\ riskCall.ret.currentDrawdown = Num(90)

\* C14 witness: metrics computed before any equity was reported
C14_WitnessZeroPeak ==
    /\ riskCall.op = "calculateMetrics"
    /\ peakEquity = Num(0)
    /\ riskCall.ret.currentDrawdown = Num(0)

----------------------------------------------------------------------------
(* More ArbitrageScanner claims, checked under ArbSpec                     *)

\* a step that is a markExecuted call
IsMarkExecutedStep == arbCall'.op = "markExecuted" /\ now' = now

\* C15: markExecuted(id) sets the status of a registered opportunity with
\* that id to executed and changes nothing else; with an id that is not
\* registered it leaves the registry unchanged; an executed opportunity never
\* becomes active again; getActiveOpportunities returns no executed
\* opportunity.
C15_Lifecycle ==
    /\ [][IsMarkExecutedStep =>
            LET hits == {i \in 1..Len(opportunities) :
                             opportunities[i].id = arbCall'.id}
            IN /\ Len(opportunities') = Len(opportunities)
               /\ hits = {} => opportunities' = opportunities
               /\ hits # {} =>
                    \E i \in hits :
                       /\ opportunities'[i] =
                              [opportunities[i] EXCEPT !.status = "executed"]
                       /\ \A j \in 1..Len(opportunities) :
                              j # i => opportunities'[j] = opportunities[j]]_vars
    /\ [][\A j \in 1..Len(opportunities') :
             opportunities'[j].status = "active" =>
                \/ arbCall'.op = "scanBinaryArbitrage" /\ scans' # scans
                     /\ j <= Len(arbCall'.ret)
                \/ \E i \in 1..Len(opportunities) :
                      opportunities[i] = opportunities'[j]]_vars
    /\ [](arbCall.op = "getActiveOpportunities" =>
             /\ \A k \in 1..Len(arbCall.ret) : arbCall.ret[k].status # "executed"
             /\ \A i \in 1..Len(opportunities) :
                   opportunities[i].status = "active" =>
                      \E k \in 1..Len(arbCall.ret) : arbCall.ret[k] = opportunities[i])

\* C15 witness: an opportunity was marked executed while another stayed
\* active
C15_Witness ==
    /\ arbCall.op = "markExecuted"
    /\ Len(opportunities) >= 2
    /\ \E i \in 1..Len(opportunities) :
          /\ opportunities[i].id = arbCall.id
          /\ opportunities[i].status = "executed"
          /\ prevOpportunities[i].status = "active"
    /\ \E j \in 1..Len(opportunities) : opportunities[j].status = "active"

\* C15 witness: the active opportunities were read from a registry that
\* holds an executed one
C15_WitnessGetter ==
    /\ arbCall.op = "getActiveOpportunities"
    /\ \E i \in 1..Len(opportunities) : opportunities[i].status = "executed"
    /\ Len(arbCall.ret) > 0

\* C15 witness: markExecuted with an id that is not registered
C15_WitnessUnknown ==
    /\ arbCall.op = "markExecuted"
    /\ arbCall.id = UnknownId
    /\ Len(opportunities) > 0
    /\ opportunities = prevOpportunities

----------------------------------------------------------------------------
(* More SpikeDetector claims                                               *)

\* C16: a logged spike event is never changed after detectSpike created it:
\* every event in the log is, field for field, the event detectSpike created
\* under that id.  analyzeMarkets assigns marketQuestion on the logged object,
\* so this fails after the first detection made through analyzeMarkets.
C16_EventImmutable ==
    \A i \in 1..Len(detectedSpikes) :
        \E j \in 1..Len(fired) :
            /\ fired[j].event.id = detectedSpikes[i].id
            /\ fired[j].event = detectedSpikes[i]

\* C11: detectSpike produces no event when the reference price (the average
\* of the points before the newest within the last 5) or the current price is
\* zero, and no event carries a NaN or infinite priceChangePercent or
\* confidence.  Stated over every event detectSpike has created; checked
\* under EnginesSpec, whose prices include 0.  The code divides by the
\* reference price without looking at it, so this fails.
C11_ZeroPriceNoSpike ==
    \A j \in 1..Len(fired) :
        LET ev == fired[j].event
        IN /\ ev.previousPrice # Num(0)
           /\ ev.currentPrice # Num(0)
           /\ ev.priceChangePercent.k = "fin"
           /\ ev.confidence.k = "fin"

\* the points held for the market of the last SpikeDetector call
HeldPoints(marketId) == Len(MapGet(priceHistory, marketId, <<>>))

\* C12: detectSpike returns none for a market with fewer than 3 recorded
\* points (a market never recorded included), also when analyzeMarkets calls
\* it, and calculateHistoricalMetrics returns none while fewer than 10 trades
\* are in the rolling history.  Checked under EnginesSpec.
C12_InsufficientData ==
    /\ spikeCall.op = "detectSpike" /\ HeldPoints(spikeCall.marketId) < 3 =>
           spikeCall.ret = Null
    /\ spikeCall.op = "analyzeMarkets" /\ HeldPoints("m1") < 3 =>
           spikeCall.ret = <<>> /\ detectedSpikes = <<>>
    /\ histCall.op = "calculateHistoricalMetrics" /\ Len(tradeHistory) < 10 =>
           histCall.ret = Null

\* C12 witness: detectSpike on two points that differ by more than the
\* threshold
C12_Witness ==
    /\ spikeCall.op = "detectSpike"
    /\ HeldPoints("m1") = 2
    /\ priceHistory["m1"][1].price # priceHistory["m1"][2].price
    /\ spikeCall.ret = Null

\* C12 witness: detectSpike on a market that was never recorded
C12_WitnessNeverRecorded ==
    /\ spikeCall.op = "detectSpike"
    /\ "m1" \notin DOMAIN priceHistory
    /\ spikeCall.ret = Null

\* C12 witness: metrics asked for with 9 trades in the history
C12_WitnessNineTrades ==
    /\ histCall.op = "calculateHistoricalMetrics"
    /\ Len(tradeHistory) = 9
    /\ histCall.ret = Null

\* C17: every detection appends one event; the log holds at most 100 events,
\* the most recent detections in detection order; getRecentSpikes(limit)
\* returns the at most limit most recent events, newest first.  Checked under
\* EnginesSpec.  slice(-limit) with limit 0 is slice(0), the whole log, so
\* getRecentSpikes(0) fails this.
C17_SpikeLog ==
    /\ Len(detectedSpikes) <= 100
    /\ Len(detectedSpikes) = MinInt(Len(fired), 100)
    /\ \A i \in 1..Len(detectedSpikes) :
           detectedSpikes[i].id =
               fired[Len(fired) - Len(detectedSpikes) + i].event.id
    /\ spikeCall.op = "getRecentSpikes" =>
           LET n == MinInt(spikeCall.limit, Len(detectedSpikes))
           IN /\ Len(spikeCall.ret) <= spikeCall.limit
              /\ Len(spikeCall.ret) = n
              /\ \A k \in 1..n :
                    spikeCall.ret[k] = detectedSpikes[Len(detectedSpikes) - k + 1]

\* C18: getRecentSpikes, getActiveOpportunities and getResults leave the
\* engine's state as it is, and a call returns what the previous call of the
\* same getter with the same argument returned when only clock ticks lie
\* between the two.  Checked under EnginesSpec.
C18_GetterIdempotence ==
    /\ [][spikeCall'.op = "getRecentSpikes" /\ now' = now =>
            /\ UNCHANGED <<priceHistory, cooldowns, detectedSpikes>>
            /\ (spikeCall.op = "getRecentSpikes"
                  /\ spikeCall.limit = spikeCall'.limit) =>
                    spikeCall'.ret = spikeCall.ret]_vars
    /\ [][arbCall'.op = "getActiveOpportunities" /\ now' = now =>
            /\ UNCHANGED opportunities
            /\ arbCall.op = "getActiveOpportunities" =>
                    arbCall'.ret = arbCall.ret]_vars
    /\ [][btCall'.op = "getResults" /\ now' = now =>
            /\ UNCHANGED <<results, bt>>
            /\ btCall.op = "getResults" => btCall'.ret = btCall.ret]_vars

\* C18 witness: the log read, two events in it, after the clock has moved
\* past the last detection
C18_Witness ==
    /\ spikeCall.op = "getRecentSpikes"
    /\ Len(spikeCall.ret) = 2
    /\ spikeCall.ret[1] # spikeCall.ret[2]
    /\ now > fired[Len(fired)].at

\* C18 witness: the active opportunities read after the clock has moved
C18_WitnessActive ==
    /\ arbCall.op = "getActiveOpportunities"
    /\ Len(arbCall.ret) > 0
    /\ Len(arbCall.ret) < Len(opportunities)
    /\ now > arbCall.at

\* C18 witness: the results read after a run
C18_WitnessResults ==
    /\ btCall.op = "getResults"
    /\ Len(btCall.ret) = 1
    /\ now > 0

----------------------------------------------------------------------------
(* Claims about the Kelly trade history, checked under KellyHistorySpec    *)

\* the last n elements of a sequence, all of it when it is shorter
LastN(list, n) == SubSeq(list, Len(list) - MinInt(n, Len(list)) + 1, Len(list))

\* C19: the rolling history holds at most lookbackPeriod (40) records, the
\* most recent ones added, in insertion order, and
\* calculateHistoricalMetrics is computed from those records alone.
C19_RollingHistory ==
    /\ Len(tradeHistory) <= 40
    /\ tradeHistory = LastN(added, 40)
    /\ histCall.op = "calculateHistoricalMetrics" =>
           histCall.ret = HistoricalMetrics(LastN(added, 40))

\* C19 witness: 42 trades added, the first of them a loss that has been
\* evicted from a history of wins
C19_Witness ==
    /\ Len(added) = 42
    /\ Len(tradeHistory) = 40
    /\ added[1].profitLoss = Num(-10)
    /\ \A i \in 1..40 : tradeHistory[i].profitLoss = Num(20)
    /\ histCall.op = "calculateHistoricalMetrics"
    /\ histCall.ret.avgLoss = Num(0)

\* the trades of the history that calculateHistoricalMetrics counts as losses
LossTrades ==
    LET Loss(t) == NumLe(t.profitLoss, Num(0)) IN SelectSeq(tradeHistory, Loss)

\* C20: calculateOptimalFraction returns 0.02 when fewer than 10 trades are
\* recorded or the average loss is 0, and otherwise (a history without a
\* winning trade included) a finite value in [0, 0.25].
C20_OptimalFraction ==
    histCall.op = "calculateOptimalFraction" =>
        IF Len(tradeHistory) < 10 \/ LossTrades = <<>>
              \/ SumTradePnL(LossTrades) = Num(0)
        THEN histCall.ret = Fin(2, 100)
        ELSE /\ histCall.ret.k = "fin"
             /\ NumLe(Num(0), histCall.ret)
             /\ NumLe(histCall.ret, Fin(1, 4))

\* C20 witness: ten losing trades and no winning one
C20_Witness ==
    /\ histCall.op = "calculateOptimalFraction"
    /\ Len(tradeHistory) = 10
    /\ \A i \in 1..10 : tradeHistory[i].profitLoss = Num(-10)
    /\ histCall.ret = Num(0)

\* C20 witness: a fraction strictly inside the clamp
C20_WitnessInterior ==
    /\ histCall.op = "calculateOptimalFraction"
    /\ NumLt(Num(0), histCall.ret)
    /\ NumLt(histCall.ret, Fin(1, 4))
    /\ histCall.ret # Fin(2, 100)

\* C20 witness: enough trades, none of them a loss
C20_WitnessNoLoss ==
    /\ histCall.op = "calculateOptimalFraction"
    /\ Len(tradeHistory) >= 10
    /\ LossTrades = <<>>
    /\ histCall.ret = Fin(2, 100)

----------------------------------------------------------------------------
(* RiskManager claims about the limits and the daily-loss halt, checked    *)
(* under RiskSpec                                                          *)

\* C25: setLimits(partial) replaces exactly the supplied fields and keeps every
\* other limit field; no other operation changes the limits; and a write to
\* the record returned by getLimits does not change the limits that later
\* validatePosition and recordTrade calls use.
C25_LimitsOnlyBySetter ==
    /\ [][riskCall'.op = "setLimits" =>
              /\ DOMAIN limits' = DOMAIN limits
              /\ \A f \in DOMAIN limits :
                     limits'[f] = IF f \in DOMAIN riskCall'.args
                                  THEN riskCall'.args[f] ELSE limits[f]]_vars
    /\ [][limits' # limits => riskCall'.op = "setLimits"]_vars
    /\ [][riskCall'.op = "writeReturnedLimits" => limits' = limits]_vars
    /\ [](riskCall.op = "getLimits" => riskCall.ret = limits)

\* C25 witness: the caller has overwritten maxDailyLoss in the record it got
\* from getLimits, and the manager still holds the old value
C25_Witness ==
    /\ riskCall.op = "writeReturnedLimits"
    /\ riskCall.ret.maxDailyLoss = Fin(1, 2)
    /\ limits.maxDailyLoss = Fin(1, 20)

\* C25 witness: setLimits with two fields after one with another field, the
\* field of the earlier call kept
C25_WitnessPartial ==
    /\ riskCall.op = "setLimits"
    /\ DOMAIN riskCall.args = {"maxTotalExposure", "maxPositionSize"}
    /\ limits.maxPositionSize = Fin(1, 50)
    /\ limits.maxDailyLoss = Fin(1, 20)
    /\ limits.maxCorrelation = Fin(7, 10)

\* C28: in every reachable state, if currentEquity > 0 and |dailyPnL| /
\* currentEquity >= maxDailyLoss then trading is halted.  The code tests the
\* ratio in recordTrade only, so a later updateEquity or setLimits can bring
\* the ratio over the limit with trading still allowed.
C28_HaltInvariant ==
    ( /\ NumGt(currentEquity, Num(0))
      /\ NumGe(NumDiv(NumAbs(dailyPnL), currentEquity), limits.maxDailyLoss) )
        => ~IsTradingAllowed

\* C29: a recordTrade call made while trading is allowed leaves it halted
\* exactly when, with the trade's profitLoss added to dailyPnL, currentEquity
\* > 0 and |dailyPnL| >= maxDailyLoss * currentEquity (the boundary halts);
\* with currentEquity 0 or negative no recordTrade halts trading.
C29_TripCondition ==
    /\ [][(riskCall'.op = "recordTrade" /\ ~tradingHalted) =>
              tradingHalted' =
                  ( /\ currentEquity.n > 0
                    /\ NumLe(NumMul(limits.maxDailyLoss, currentEquity),
                             NumAbs(dailyPnL')) )]_vars
    /\ [][(riskCall'.op = "recordTrade" /\ currentEquity.n <= 0) =>
              tradingHalted' = tradingHalted]_vars

\* C29 witness: a trade that brings |dailyPnL| exactly to maxDailyLoss *
\* currentEquity, and trading is halted
C29_WitnessBoundary ==
    /\ riskCall.op = "recordTrade"
    /\ currentEquity = Num(10000)
    /\ limits.maxDailyLoss = Fin(1, 10)
    /\ dailyPnL = Num(-1000)
    /\ tradingHalted

\* C29 witness: a loss recorded with a negative equity, trading still allowed
C29_WitnessNegativeEquity ==
    /\ riskCall.op = "recordTrade"
    /\ currentEquity = Num(-1000)
    /\ dailyPnL = Num(-1500)
    /\ ~tradingHalted

\* C29 witness: a loss recorded before any equity was reported
C29_WitnessNoEquity ==
    /\ riskCall.op = "recordTrade"
    /\ currentEquity = Num(0)
    /\ peakEquity = Num(0)
    /\ dailyPnL = Num(-1000)
    /\ ~tradingHalted

\* C30: whenever trading becomes halted the accumulated dailyPnL is negative,
\* a net loss of at least maxDailyLoss * currentEquity; a day whose
\* accumulated P&L is a net profit never halts trading.  The code compares
\* Math.abs(dailyPnL), so a net profit of that size halts as well.
C30_LossOnly ==
    [][(~tradingHalted /\ tradingHalted') =>
          /\ NumLt(dailyPnL', Num(0))
          /\ NumLe(NumMul(limits'.maxDailyLoss, currentEquity'), NumNeg(dailyPnL'))]_vars

----------------------------------------------------------------------------
(* More BacktestingEngine claims                                           *)

\* C21: a run with strategy "statistical" completes with no trade simulated,
\* the equity equal to the initial capital at every point of the equity
\* curve, and totalReturn, maxDrawdown, Sharpe ratio, win rate and profit
\* factor all 0, for every history.
C21_StatisticalNoOp ==
    (bt.pc = "complete" /\ bt.config.strategy = "statistical") =>
        /\ btCall.op = "runBacktest" /\ btCall.ret = LastResult
        /\ LastResult.trades = <<>>
        /\ LastResult.totalTrades = Num(0)
        /\ \A k \in 1..Len(LastResult.equityCurve) :
               LastResult.equityCurve[k].equity = bt.config.initialCapital
        /\ LastResult.totalReturn = Num(0)
        /\ LastResult.maxDrawdown = Num(0)
        /\ LastResult.sharpeRatio = Num(0)
        /\ LastResult.winRate = Num(0)
        /\ LastResult.profitFactor = Num(0)

\* C21 witness: a completed statistical run over three days, one of which
\* holds a market the arbitrage strategy would trade
C21_Witness ==
    /\ bt.pc = "complete"
    /\ bt.config.strategy = "statistical"
    /\ Len(bt.historicalData) = 3
    /\ Len(LastResult.equityCurve) = 2
    /\ \E d \in 2..3 : Len(bt.historicalData[d]) = 2

\* C21 witness: a completed statistical run over an empty history
C21_WitnessEmpty ==
    /\ bt.pc = "complete"
    /\ bt.config.strategy = "statistical"
    /\ bt.historicalData = <<>>

\* a number that is neither NaN nor an infinity; a Sharpe ratio kept as a
\* square root is finite when its square is
IsFiniteNumber(x) ==
    IF x.k = "sqrt" THEN x.square.k = "fin" ELSE x.k = "fin"

\* C22: every numeric field of the result of a completed run is finite
\* (profit factor, Sharpe ratio, win rate, maxDrawdown, the returns and the
\* equity), for every strategy and history, runs without a losing trade, with
\* fewer than 2 trades or with zero variance included.  The code reports a
\* profit factor of Infinity for a run with a profit and no loss.
C22_FiniteResult ==
    bt.pc = "complete" =>
        /\ IsFiniteNumber(LastResult.profitFactor)
        /\ IsFiniteNumber(LastResult.sharpeRatio)
        /\ IsFiniteNumber(LastResult.winRate)
        /\ IsFiniteNumber(LastResult.maxDrawdown)
        /\ IsFiniteNumber(LastResult.totalReturn)
        /\ IsFiniteNumber(LastResult.totalReturnPercent)
        /\ \A k \in 1..Len(LastResult.equityCurve) :
               IsFiniteNumber(LastResult.equityCurve[k].equity)
        /\ \A k \in 1..Len(LastResult.trades) :
               /\ IsFiniteNumber(LastResult.trades[k].profitLoss)
               /\ IsFiniteNumber(LastResult.trades[k].profitLossPercent)

\* C23, checked under BacktestRegistrySpec: every completed runBacktest
\* appends exactly one result, the one it returns; the registry never holds
\* more than 20 results and is always the most recent min(N, 20) of the N
\* results completed so far, in completion order, which is what getResults
\* returns.
C23_ResultRegistry ==
    /\ [](Len(results) <= 20)
    /\ [](results = LastN(finished, 20))
    /\ [](btCall.op = "getResults" => btCall.ret = LastN(finished, 20))
    /\ [][(btCall'.op = "runBacktest" /\ bt'.pc = "complete" /\ bt.pc = "running") =>
              /\ Len(finished') = Len(finished) + 1
              /\ results'[Len(results')] = btCall'.ret
              /\ results' = IF Len(results) = 20
                             THEN Append(Tail(results), btCall'.ret)
                             ELSE Append(results, btCall'.ret)]_vars
    /\ [][results' # results => (bt.pc = "running" /\ bt'.pc = "complete")]_vars

\* C23 witness: 22 runs completed, getResults returns 20 results, the oldest
\* two evicted, and the oldest kept differs from the newest
C23_Witness ==
    /\ btCall.op = "getResults"
    /\ Len(finished) = 22
    /\ Len(btCall.ret) = 20
    /\ btCall.ret[1] = finished[3]
    /\ btCall.ret[20] = finished[22]
    /\ finished[1] # finished[3]
    /\ finished[3] # finished[22]

\* C23 witness: the 21st run has just completed and evicted the first
C23_WitnessEvict ==
    /\ btCall.op = "runBacktest"
    /\ bt.pc = "complete"
    /\ Len(finished) = 21
    /\ results[1] = finished[2]
    /\ finished[1] # finished[2]

\* C24, checked under LiveBacktestSpec: every step of a runBacktest leaves the
\* spike detector's price histories, cooldowns and log, the arbitrage
\* registry, the Kelly trade history and the risk manager's limits, equity,
\* peak, dailyPnL and halt flag as they were, and changes the results list
\* only by appending the result it returns.
C24_BacktestFrame ==
    /\ [][bt' # bt => LiveState' = LiveState]_vars
    /\ [][bt' # bt =>
              \/ results' = results /\ bt'.pc = "running"
              \/ /\ bt'.pc = "complete"
                 /\ results' = Append(results, btCall'.ret)]_vars

\* C24 witness: a run that simulated a trade has completed while the detector
\* holds a logged event and a cooldown, the registry an opportunity, the
\* Kelly history a trade, and the risk manager a loss and an equity
C24_Witness ==
    /\ bt.pc = "complete"
    /\ Len(LastResult.trades) > 0
    /\ detectedSpikes # <<>>
    /\ DOMAIN cooldowns # {}
    /\ opportunities # <<>>
    /\ tradeHistory # <<>>
    /\ dailyPnL = Num(-500)
    /\ currentEquity = Num(1000)
    /\ tradingHalted

----------------------------------------------------------------------------
(* Concurrent RiskManager callers, checked under RiskCallersSpec           *)

\* the callers whose call has returned
DoneCallers == {c \in Callers : riskCallers[c].pc = "done"}

\* no caller is inside a method
Quiescent == \A c \in Callers : riskCallers[c].pc \in {"idle", "done"}

\* the orders in which the returned calls can be put one after another
Orders(S) ==
    {f \in [1..Cardinality(S) -> S] :
        \A i, j \in 1..Cardinality(S) : i # j => f[i] # f[j]}

\* the state and the results after the first k calls of an order, run one
\* after another from the state st
RECURSIVE SeqRun(_, _, _)
SeqRun(st, order, k) ==
    IF k = 0 THEN [st |-> st, rets |-> [c \in {} |-> Null]]
    ELSE LET before == SeqRun(st, order, k - 1)
             c == order[k]
             r == RiskApply(before.st, [op |-> riskCallers[c].op, arg |-> riskCallers[c].arg])
         IN [st |-> r.st, rets |-> MapSet(before.rets, c, r.ret)]

\* what the returned calls have produced: the state and each call's result
Outcome ==
    [st |-> RiskState,
     rets |-> [c \in DoneCallers |->
                  IF riskCallers[c].op = "validatePosition"
                  THEN riskCallers[c].ret.allowed ELSE Null]]

\* the sum of the profitLoss of the returned recordTrade calls
RECURSIVE RecordedBy(_)
RecordedBy(S) ==
    IF S = {} THEN Num(0)
    ELSE LET c == CHOOSE x \in S : TRUE
         IN NumAdd(RecordedBy(S \ {c}),
                   IF riskCallers[c].op = "recordTrade" THEN riskCallers[c].arg ELSE Num(0))

\* C27: whenever the concurrent recordTrade, updateEquity, resetDailyPnL and
\* validatePosition calls made so far have all returned, the manager's state
\* and the calls' results are those of running the calls one after another in
\* some order; without a reset among them dailyPnL has grown by the sum of
\* the recorded profitLoss (none is lost); and a validatePosition that runs
\* after a recordTrade has returned with trading halted, no reset having been
\* called, returns allowed = false.
C27_Serializable ==
    /\ []((Quiescent /\ DoneCallers # {}) =>
              \E order \in Orders(DoneCallers) :
                  Outcome = SeqRun(riskStart, order, Cardinality(DoneCallers)))
    /\ []((Quiescent /\ DoneCallers # {}
              /\ \A c \in DoneCallers : riskCallers[c].op # "resetDailyPnL") =>
              dailyPnL = NumAdd(riskStart.dailyPnL, RecordedBy(DoneCallers)))
    /\ [][\A c \in Callers :
              ( /\ riskCallers[c].pc = "checkHalt"
                /\ riskCallers'[c].pc = "done"
                /\ tradingHalted
                /\ \E d \in Callers : /\ riskCallers[d].op = "recordTrade"
                                      /\ riskCallers[d].pc = "done"
                /\ \A d \in Callers : riskCallers[d].op # "resetDailyPnL" )
              => riskCallers'[c].ret.allowed = FALSE]_vars

\* C27 witness: two losses and a validatePosition have returned, both losses
\* are in dailyPnL and the position was refused
C27_Witness ==
    /\ DoneCallers = Callers
    /\ riskStart.currentEquity = Num(1000)
    /\ riskCallers[1].op = "recordTrade" /\ riskCallers[1].arg = Num(-500)
    /\ riskCallers[2].op = "recordTrade" /\ riskCallers[2].arg = Num(-100)
    /\ riskCallers[3].op = "validatePosition"
    /\ riskCallers[3].ret.allowed = FALSE
    /\ dailyPnL = Num(-600)

\* C27 witness: a loss, a reset and a validatePosition have returned, the
\* position allowed as in the order loss, reset, validatePosition
C27_WitnessReset ==
    /\ DoneCallers = Callers
    /\ riskStart.currentEquity = Num(1000)
    /\ riskCallers[1].op = "recordTrade"
    /\ riskCallers[2].op = "resetDailyPnL"
    /\ riskCallers[3].op = "validatePosition"
    /\ riskCallers[3].ret.allowed = TRUE
    /\ dailyPnL = Num(0)

----------------------------------------------------------------------------
(* Concurrent SpikeDetector callers, checked under SpikeCallersSpec        *)

\* the callers whose call has returned
SpikeDone == {c \in SpikeCallerIds : spikeCallers.call[c].pc = "done"}

\* no caller is inside a method
SpikeQuiescent == \A c \in SpikeCallerIds : spikeCallers.call[c].pc \in {"idle", "done"}

\* the state and the results after the first k calls of an order, run one
\* after another from the state st
RECURSIVE SpikeSeqRun(_, _, _)
SpikeSeqRun(st, order, k) ==
    IF k = 0 THEN [st |-> st, rets |-> [c \in {} |-> Null]]
    ELSE LET before == SpikeSeqRun(st, order, k - 1)
             c == order[k]
             r == SpikeApply(before.st,
                             [op |-> spikeCallers.call[c].op,
                              price |-> spikeCallers.call[c].price], now)
         IN [st |-> r.st, rets |-> MapSet(before.rets, c, r.ret)]

\* what the returned calls have produced: the state and each call's result
SpikeOutcome ==
    [st |-> SpikeState, rets |-> [c \in SpikeDone |-> spikeCallers.call[c].ret]]

\* the call of caller c returned an event
ReturnedEvent(c) ==
    /\ spikeCallers.call[c].pc = "done"
    /\ \/ spikeCallers.call[c].op = "detectSpike" /\ spikeCallers.call[c].ret # Null
       \/ spikeCallers.call[c].op = "analyzeMarkets" /\ spikeCallers.call[c].ret # <<>>

\* the newest n elements of a list
Newest(list, n) == SubSeq(list, Len(list) - MinInt(n, Len(list)) + 1, Len(list))

\* C26: whenever the concurrent recordPrice, detectSpike and analyzeMarkets
\* calls made so far on one market at one instant have all returned, the
\* detector's state and the calls' results are those of running the calls one
\* after another in some order; at most one of the calls has returned an
\* event; and the market's history is the newest points recorded, up to the
\* window size, so that no recorded point is lost.
C26_NoInterleaving ==
    /\ (SpikeQuiescent /\ SpikeDone # {}) =>
           \E order \in Orders(SpikeDone) :
               SpikeOutcome = SpikeSeqRun(spikeCallers.start, order, Cardinality(SpikeDone))
    /\ Cardinality({c \in SpikeCallerIds : ReturnedEvent(c)}) <= 1
    /\ SpikeQuiescent =>
           MapGet(priceHistory, CallersMarket.id, <<>>) =
               Newest(MapGet(recorded, CallersMarket.id, <<>>), defaultWindowSize)

\* C26 witness: two detectSpike calls on a history that shows a spike have
\* returned, one with the event and one with null
C26_Witness ==
    /\ \A c \in SpikeCallerIds : /\ spikeCallers.call[c].pc = "done"
                                 /\ spikeCallers.call[c].op = "detectSpike"
    /\ \E c \in SpikeCallerIds : ReturnedEvent(c)
    /\ \E c \in SpikeCallerIds : ~ReturnedEvent(c)

\* C26 witness: two recordPrice calls on a market without a history have
\* returned and both points are in the history
C26_WitnessBothRecorded ==
    /\ spikeCallers.start # Null
    /\ CallersMarket.id \notin DOMAIN spikeCallers.start.priceHistory
    /\ \A c \in SpikeCallerIds : /\ spikeCallers.call[c].pc = "done"
                                 /\ spikeCallers.call[c].op = "recordPrice"
    /\ Len(priceHistory[CallersMarket.id]) = NumSpikeCallers

\* C26 witness: two analyzeMarkets calls have returned, the first with the
\* event of the spike its price made
C26_WitnessScan ==
    /\ \A c \in SpikeCallerIds : /\ spikeCallers.call[c].pc = "done"
                                 /\ spikeCallers.call[c].op = "analyzeMarkets"
    /\ \E c \in SpikeCallerIds : ReturnedEvent(c)


----------------------------------------------------------------------------
(* RiskManager claims about the final gate and the metrics, checked under  *)
(* RiskSpec                                                                *)

\* the size the caller may open after a validatePosition that allowed it
PermittedSize(call) ==
    IF call.ret.adjustedSize = Undefined THEN call.args.positionSize
    ELSE call.ret.adjustedSize

\* C31: whenever validatePosition returns allowed = true, the permitted size
\* (adjustedSize when present, otherwise positionSize) is at most
\* maxPositionSize * bankroll.
C31_PositionCap ==
    (riskCall.op = "validatePosition" /\ riskCall.ret.allowed) =>
        NumLe(PermittedSize(riskCall),
              NumMul(limits.maxPositionSize, riskCall.args.bankroll))

\* C32: for bankroll > 0 and positionSize >= 0, whenever validatePosition
\* returns allowed = true, the existing exposure plus the permitted size is at
\* most maxTotalExposure * bankroll.
C32_ExposureCap ==
    ( /\ riskCall.op = "validatePosition"
      /\ riskCall.ret.allowed
      /\ NumGt(riskCall.args.bankroll, Num(0))
      /\ NumGe(riskCall.args.positionSize, Num(0)) ) =>
        NumLe(NumAdd(Exposure(riskCall.args.positions), PermittedSize(riskCall)),
              NumMul(limits.maxTotalExposure, riskCall.args.bankroll))

\* C32 witness: the request passes the exposure test and is cut by the
\* single-position cap, with exposure already held
C32_Witness ==
    /\ riskCall.op = "validatePosition"
    /\ riskCall.ret.allowed
    /\ riskCall.ret.reason = "Position size reduced to maximum allowed"
    /\ riskCall.args.positions # <<>>
    /\ NumGt(riskCall.args.bankroll, Num(0))

\* C32 witness: the request is cut by the exposure test to the headroom
C32_WitnessHeadroom ==
    /\ riskCall.op = "validatePosition"
    /\ riskCall.ret.allowed
    /\ riskCall.ret.reason = "Position size reduced to stay within exposure limits"
    /\ riskCall.args.positions # <<>>

\* C33: the maxDrawdown that calculateMetrics reports never falls: after a
\* call of the manager it is at least what it was before the call.
C33_MaxDrawdownHistorical ==
    [][NumGe(ReportedDrawdown(DrawdownOf(peakEquity', currentEquity')),
             ReportedDrawdown(DrawdownOf(peakEquity, currentEquity)))]_vars

\* C39: a validatePosition or calculateMetrics call leaves limits,
\* currentEquity, peakEquity, dailyPnL and the halt flag as they were, leaves
\* the positions array it was given as it was, and a second call with the
\* same arguments, in the state the first has left, returns the same result.
C39_ReadOnly ==
    /\ [][riskCall'.op \in {"validatePosition", "calculateMetrics"} =>
              /\ RiskState' = RiskState
              /\ riskCall'.args.after = riskCall'.args.positions]_vars
    /\ [](riskCall.op = "validatePosition" =>
              riskCall.ret = ValidatePosition(riskCall.args.positionSize,
                                              riskCall.args.bankroll, riskCall.args.after))
    /\ [](riskCall.op = "calculateMetrics" =>
              riskCall.ret = CalculateMetrics(riskCall.args.after, riskCall.args.bankroll))

\* C39 witness: a validatePosition that cut the size, in a manager with a
\* drawdown and a daily P&L
C39_Witness ==
    /\ riskCall.op = "validatePosition"
    /\ riskCall.ret.adjustedSize # Undefined
    /\ dailyPnL # Num(0)
    /\ NumGt(peakEquity, currentEquity)

\* C39 witness: a calculateMetrics of two positions, in a manager with a
\* drawdown
C39_WitnessMetrics ==
    /\ riskCall.op = "calculateMetrics"
    /\ Len(riskCall.args.positions) = 2
    /\ riskCall.ret.riskScore = "critical"
    /\ NumGt(peakEquity, currentEquity)


----------------------------------------------------------------------------
(* ArbitrageScanner claim about the opportunity ids, checked under ArbSpec *)

\* C36: no two registered opportunities share an id, and after
\* markExecuted(id) no registered opportunity with that id is active.
C36_UniqueIds ==
    /\ \A i, j \in 1..Len(opportunities) :
          i # j => opportunities[i].id # opportunities[j].id
    /\ arbCall.op = "markExecuted" =>
          \A i \in 1..Len(opportunities) :
              opportunities[i].id = arbCall.id => opportunities[i].status # "active"


----------------------------------------------------------------------------
(* ArbitrageScanner claim about the multi-market scan, checked under       *)
(* ArbRoutesSpec                                                           *)

\* C37: scanMultiMarketArbitrage leaves the registry as it was; no
\* multi-market opportunity is ever registered or returned by
\* getActiveOpportunities; and markExecuted on the id of a multi-market
\* opportunity leaves the registry as it was.
C37_MultiScanFrame ==
    /\ [][arbCall'.op = "scanMultiMarketArbitrage" => opportunities' = opportunities]_vars
    /\ [](\A i \in 1..Len(opportunities) : opportunities[i].type # "multi_market")
    /\ [](arbCall.op = "getActiveOpportunities" =>
              \A i \in 1..Len(arbCall.ret) : arbCall.ret[i].type # "multi_market")
    /\ [][(arbCall'.op = "markExecuted" /\ arbCall'.id.kind = "multi") =>
              opportunities' = opportunities]_vars

\* C37 witness: a multi-market scan has returned two opportunities while the
\* registry holds a binary one
C37_Witness ==
    /\ arbCall.op = "scanMultiMarketArbitrage"
    /\ Len(arbCall.ret) >= 2
    /\ opportunities # <<>>

\* C37 witness: markExecuted was called with the id of a multi-market
\* opportunity while the registry holds an active opportunity
C37_WitnessExecute ==
    /\ arbCall.op = "markExecuted"
    /\ arbCall.id.kind = "multi"
    /\ \E i \in 1..Len(opportunities) : opportunities[i].status = "active"


----------------------------------------------------------------------------
(* SpikeDetector claims about the end of the cooldown, checked under       *)
(* SpikeSpec, and about the markets' isolation, checked under              *)
(* SpikeMarketsSpec                                                        *)

\* the index of the last event of a market in the events fired, 0 if none
LastFired(marketId) ==
    LET hits == {i \in 1..Len(fired) : fired[i].marketId = marketId}
    IN IF hits = {} THEN 0 ELSE CHOOSE i \in hits : \A j \in hits : j <= i

\* the newest price of a history moves from the mean of the (up to four)
\* prices before it by at least the threshold
MoveMeets(history, threshold) ==
    LET recent == Newest(history, 5)
        k == Len(recent)
        mean == NumDiv(SumPrices(SubSeq(recent, 1, k - 1)), Num(k - 1))
    IN NumGe(NumAbs(NumSub(recent[k].price, mean)), NumMul(threshold, NumAbs(mean)))

\* C34: when the last event of a market fired at t with cooldown c, a
\* detectSpike call at a time t' >= t + c on a history of at least 3 points
\* whose move meets the threshold returns an event and sets the cooldown to
\* end at t' + cooldownMs; and a recordPrice during a cooldown appends its
\* point to the market's history.  (A call reads one instant: the clock moves
\* between calls.)
C34_CooldownEnds ==
    /\ [][\A m \in SpikeMarketIds, s \in SpikeSettings :
            ( /\ now' = now
              /\ spikeCall'.op = "detectSpike"
              /\ spikeCall'.marketId = m
              /\ LastFired(m) # 0
              /\ now >= fired[LastFired(m)].at + fired[LastFired(m)].cooldownMs
              /\ Len(MapGet(priceHistory, m, <<>>)) >= 3
              /\ MoveMeets(MapGet(priceHistory, m, <<>>), s.spikeThreshold) )
            => /\ spikeCall'.ret # Null
               /\ spikeCall'.ret.marketId = m
               /\ Len(fired') = Len(fired) + 1
               /\ cooldowns'[m] = now + fired'[Len(fired')].cooldownMs
               /\ fired'[Len(fired')].cooldownMs \in {x.cooldownMs : x \in SpikeSettings}]_vars
    /\ [][\A m \in SpikeMarketIds :
            ( /\ now' = now
              /\ spikeCall'.op = "recordPrice"
              /\ spikeCall'.marketId = m
              /\ InCooldown(SpikeState, m, now) )
            => /\ Len(recorded'[m]) = Len(MapGet(recorded, m, <<>>)) + 1
               /\ priceHistory'[m][Len(priceHistory'[m])] = recorded'[m][Len(recorded'[m])]
               /\ recorded'[m][Len(recorded'[m])].timestamp = now]_vars

\* C34 witness: a market fired at the instant its earlier cooldown ended
C34_Witness ==
    /\ spikeCall.op = "detectSpike"
    /\ spikeCall.ret # Null
    /\ \E i \in 1..Len(fired) :
          /\ i < Len(fired)
          /\ fired[i].marketId = spikeCall.marketId
          /\ fired[Len(fired)].marketId = spikeCall.marketId
          /\ fired[Len(fired)].at = fired[i].at + fired[i].cooldownMs

\* C34 witness: a market fired after its earlier cooldown had ended
C34_WitnessLater ==
    /\ spikeCall.op = "detectSpike"
    /\ spikeCall.ret # Null
    /\ \E i \in 1..Len(fired) :
          /\ i < Len(fired)
          /\ fired[i].marketId = spikeCall.marketId
          /\ fired[Len(fired)].marketId = spikeCall.marketId
          /\ fired[Len(fired)].at > fired[i].at + fired[i].cooldownMs

\* C34 witness: a point was recorded for a market in its cooldown
C34_WitnessRecorded ==
    /\ spikeCall.op = "recordPrice"
    /\ InCooldown(SpikeState, spikeCall.marketId, now)
    /\ Len(priceHistory[spikeCall.marketId]) = defaultWindowSize


\* the detector's state as market b sees it: b's history and cooldown alone
OnlyMarket(st, b) ==
    [st EXCEPT !.priceHistory = [m \in DOMAIN @ \cap {b} |-> @[m]],
               !.cooldowns = [m \in DOMAIN @ \cap {b} |-> @[m]]]

\* C35: a recordPrice or detectSpike call for market a leaves the history and
\* the cooldown of every other market b as they were, and the result of a
\* detectSpike call for b is the one b's own history and cooldown give.
C35_MarketIsolation ==
    /\ [][\A a, b \in SpikeMarketIds :
            ( /\ now' = now
              /\ spikeCall'.op \in {"recordPrice", "detectSpike"}
              /\ spikeCall'.marketId = a
              /\ b # a )
            => /\ (b \in DOMAIN priceHistory') = (b \in DOMAIN priceHistory)
               /\ MapGet(priceHistory', b, <<>>) = MapGet(priceHistory, b, <<>>)
               /\ (b \in DOMAIN cooldowns') = (b \in DOMAIN cooldowns)
               /\ MapGet(cooldowns', b, 0) = MapGet(cooldowns, b, 0)]_vars
    /\ [][\A b \in SpikeMarketIds :
            ( /\ now' = now
              /\ spikeCall'.op = "detectSpike"
              /\ spikeCall'.marketId = b )
            => \E s \in SpikeSettings :
                  spikeCall'.ret = DetectSpike(OnlyMarket(SpikeState, b), b, s, now).ret]_vars

\* C35 witness: market m2 fired while market m1 was in its cooldown
C35_Witness ==
    /\ spikeCall.op = "detectSpike"
    /\ spikeCall.marketId = "m2"
    /\ spikeCall.ret # Null
    /\ InCooldown(SpikeState, "m1", now)
    /\ fired[Len(fired)].at = now

\* C35 witness: a point was recorded for m1 while m2 had a history
C35_WitnessRecord ==
    /\ spikeCall.op = "recordPrice"
    /\ spikeCall.marketId = "m1"
    /\ "m2" \in DOMAIN priceHistory
    /\ Len(priceHistory["m1"]) >= 2


----------------------------------------------------------------------------
(* BacktestingEngine claim about the spike and arbitrage strategies,       *)
(* checked under BacktestSpec                                              *)

\* C38: in a run of the "spike" or the "arbitrage" strategy every simulated
\* trade has a profitLoss > 0, the equity never decreases from one day to the
\* next, and the completed run reports maxDrawdown 0 and, with at least one
\* trade, a win rate of 100.
C38_AlwaysWins ==
    (bt.pc # "idle" /\ bt.config.strategy \in {"spike", "arbitrage"}) =>
        /\ \A k \in 1..Len(bt.trades) : NumGt(bt.trades[k].profitLoss, Num(0))
        /\ \A k \in 1..Len(bt.equityCurve) :
               NumGe(bt.equityCurve[k].equity,
                     IF k = 1 THEN bt.config.initialCapital
                     ELSE bt.equityCurve[k - 1].equity)
        /\ bt.maxDrawdown = Num(0)
        /\ bt.pc = "complete" =>
               /\ LastResult.maxDrawdown = Num(0)
               /\ LastResult.trades = bt.trades
               /\ Len(bt.trades) > 0 => LastResult.winRate = Num(100)

\* C38 witness: a completed spike run that traded an upward and a downward
\* move
C38_Witness ==
    /\ bt.pc = "complete"
    /\ bt.config.strategy = "spike"
    /\ \E j, k \in 1..Len(bt.trades) : bt.trades[j].side = "NO" /\ bt.trades[k].side = "YES"
    /\ LastResult.winRate = Num(100)

\* C38 witness: a completed arbitrage run with a trade on each of two days
C38_WitnessArbitrage ==
    /\ bt.pc = "complete"
    /\ bt.config.strategy = "arbitrage"
    /\ Len(bt.trades) = 2
    /\ Len(bt.equityCurve) = 2
    /\ NumGt(bt.equityCurve[2].equity, bt.equityCurve[1].equity)
    /\ LastResult.winRate = Num(100)

\* C38 witness: a completed spike run without a trade
C38_WitnessNoTrade ==
    /\ bt.pc = "complete"
    /\ bt.config.strategy = "spike"
    /\ Len(bt.historicalData) = 3
    /\ bt.trades = <<>>

====
